---- MODULE Spec2Model ----
(***************************************************************************)
(* Meal-image mapping Lambda (src/index.js) with its dietary classifier    *)
(* (src/vegetarian-detection.js).                                          *)
(*                                                                         *)
(* Text is a sequence of one-character strings, so that lower-casing,      *)
(* substring search and word splitting are computed by the model.          *)
(* Similarity scores are fixed-point numbers in thousandths (Scale):       *)
(* 0.2 is 200, 1.0 is 1000.                                                *)
(***************************************************************************)
EXTENDS Integers, Sequences, FiniteSets, TLC

(***************************************************************************)
(* Keyword tables of src/vegetarian-detection.js, in source order and      *)
(* with the source's repetitions.                                          *)
(***************************************************************************)
VEGETARIAN_INDICATORS ==
  << <<"p","a","n","e","e","r">>,
     <<"t","o","f","u">>,
     <<"s","o","y">>,
     <<"b","e","a","n","s">>,
     <<"l","e","n","t","i","l","s">>,
     <<"d","a","l">>,
     <<"c","h","i","c","k","p","e","a","s">>,
     <<"r","a","j","m","a">>,
     <<"c","h","a","n","a">>,
     <<"m","o","o","n","g">>,
     <<"m","a","s","o","o","r">>,
     <<"u","r","a","d">>,
     <<"t","o","o","r">>,
     <<"b","l","a","c","k"," ","b","e","a","n","s">>,
     <<"k","i","d","n","e","y"," ","b","e","a","n","s">>,
     <<"w","h","i","t","e"," ","b","e","a","n","s">>,
     <<"t","e","m","p","e","h">>,
     <<"s","e","i","t","a","n">>,
     <<"q","u","i","n","o","a">>,
     <<"n","u","t","s">>,
     <<"a","l","m","o","n","d","s">>,
     <<"c","a","s","h","e","w","s">>,
     <<"p","e","a","n","u","t","s">>,
     <<"v","e","g","e","t","a","b","l","e">>,
     <<"v","e","g","g","i","e">>,
     <<"p","o","t","a","t","o">>,
     <<"o","n","i","o","n">>,
     <<"t","o","m","a","t","o">>,
     <<"c","a","r","r","o","t">>,
     <<"s","p","i","n","a","c","h">>,
     <<"p","a","l","a","k">>,
     <<"c","a","b","b","a","g","e">>,
     <<"c","a","u","l","i","f","l","o","w","e","r">>,
     <<"b","r","o","c","c","o","l","i">>,
     <<"p","e","a","s">>,
     <<"c","o","r","n">>,
     <<"b","e","l","l"," ","p","e","p","p","e","r">>,
     <<"c","a","p","s","i","c","u","m">>,
     <<"e","g","g","p","l","a","n","t">>,
     <<"b","r","i","n","j","a","l">>,
     <<"o","k","r","a">>,
     <<"l","a","d","y"," ","f","i","n","g","e","r">>,
     <<"b","i","t","t","e","r"," ","g","o","u","r","d">>,
     <<"b","o","t","t","l","e"," ","g","o","u","r","d">>,
     <<"r","i","d","g","e"," ","g","o","u","r","d">>,
     <<"s","n","a","k","e"," ","g","o","u","r","d">>,
     <<"p","u","m","p","k","i","n">>,
     <<"s","w","e","e","t"," ","p","o","t","a","t","o">>,
     <<"b","e","e","t","r","o","o","t">>,
     <<"r","a","d","i","s","h">>,
     <<"c","u","c","u","m","b","e","r">>,
     <<"l","e","t","t","u","c","e">>,
     <<"c","a","b","b","a","g","e">>,
     <<"m","u","s","h","r","o","o","m">>,
     <<"g","i","n","g","e","r">>,
     <<"g","a","r","l","i","c">>,
     <<"c","o","r","i","a","n","d","e","r">>,
     <<"m","i","n","t">>,
     <<"c","u","r","r","y"," ","l","e","a","v","e","s">>,
     <<"f","e","n","u","g","r","e","e","k">>,
     <<"m","e","t","h","i">>,
     <<"d","i","l","l">>,
     <<"b","a","s","i","l">>,
     <<"o","r","e","g","a","n","o">>,
     <<"r","i","c","e">>,
     <<"w","h","e","a","t">>,
     <<"f","l","o","u","r">>,
     <<"a","t","t","a">>,
     <<"m","a","i","d","a">>,
     <<"s","e","m","o","l","i","n","a">>,
     <<"r","a","v","a">>,
     <<"s","o","o","j","i">>,
     <<"o","a","t","s">>,
     <<"b","a","r","l","e","y">>,
     <<"m","i","l","l","e","t">>,
     <<"b","a","j","r","a">>,
     <<"j","o","w","a","r">>,
     <<"r","a","g","i">>,
     <<"c","o","r","n"," ","f","l","o","u","r">>,
     <<"m","i","l","k">>,
     <<"c","u","r","d">>,
     <<"y","o","g","u","r","t">>,
     <<"d","a","h","i">>,
     <<"b","u","t","t","e","r">>,
     <<"g","h","e","e">>,
     <<"c","h","e","e","s","e">>,
     <<"c","r","e","a","m">>,
     <<"b","u","t","t","e","r","m","i","l","k">>,
     <<"l","a","s","s","i">>,
     <<"p","a","n","e","e","r">>,
     <<"c","o","t","t","a","g","e"," ","c","h","e","e","s","e">>,
     <<"t","u","r","m","e","r","i","c">>,
     <<"c","u","m","i","n">>,
     <<"c","o","r","i","a","n","d","e","r">>,
     <<"c","a","r","d","a","m","o","m">>,
     <<"c","i","n","n","a","m","o","n">>,
     <<"c","l","o","v","e","s">>,
     <<"p","e","p","p","e","r">>,
     <<"c","h","i","l","i">>,
     <<"r","e","d"," ","c","h","i","l","i">>,
     <<"g","r","e","e","n"," ","c","h","i","l","i">>,
     <<"m","u","s","t","a","r","d">>,
     <<"f","e","n","u","g","r","e","e","k">>,
     <<"a","s","a","f","o","e","t","i","d","a">>,
     <<"h","i","n","g">>,
     <<"b","a","y"," ","l","e","a","v","e","s">>,
     <<"c","u","r","r","y"," ","l","e","a","v","e","s">>,
     <<"m","i","n","t"," ","l","e","a","v","e","s">>,
     <<"c","o","r","i","a","n","d","e","r"," ","l","e","a","v","e","s">>,
     <<"s","t","e","a","m","e","d">>,
     <<"b","o","i","l","e","d">>,
     <<"r","o","a","s","t","e","d">>,
     <<"g","r","i","l","l","e","d">>,
     <<"b","a","k","e","d">>,
     <<"s","t","i","r","-","f","r","i","e","d">>,
     <<"s","a","u","t","e_acute","e","d">>,
     <<"v","e","g","e","t","a","r","i","a","n">>,
     <<"v","e","g","g","i","e">>,
     <<"v","e","g","a","n">>,
     <<"s","a","b","z","i">>,
     <<"s","u","b","z","i">>,
     <<"c","u","r","r","y">>,
     <<"m","a","s","a","l","a">>,
     <<"t","i","k","k","a">>,
     <<"b","i","r","y","a","n","i">>,
     <<"p","u","l","a","o">>,
     <<"f","r","i","e","d"," ","r","i","c","e">>,
     <<"n","o","o","d","l","e","s">>,
     <<"p","a","s","t","a">>,
     <<"s","a","n","d","w","i","c","h">>,
     <<"w","r","a","p">>,
     <<"s","a","l","a","d">>,
     <<"s","o","u","p">>,
     <<"s","t","e","w">>,
     <<"g","r","a","v","y">>,
     <<"s","a","u","c","e">>,
     <<"c","h","u","t","n","e","y">>,
     <<"p","i","c","k","l","e">>,
     <<"r","a","i","t","a">>,
     <<"d","a","l">>,
     <<"s","a","m","b","a","r">>,
     <<"r","a","s","a","m">>,
     <<"k","a","d","h","i">>,
     <<"k","o","r","m","a">>,
     <<"b","u","t","t","e","r"," ","m","a","s","a","l","a">>,
     <<"t","i","k","k","a"," ","m","a","s","a","l","a">>,
     <<"p","a","l","a","k"," ","p","a","n","e","e","r">>,
     <<"m","u","t","t","e","r"," ","p","a","n","e","e","r">>,
     <<"c","h","a","n","a"," ","m","a","s","a","l","a">>,
     <<"r","a","j","m","a"," ","m","a","s","a","l","a">>,
     <<"a","l","o","o"," ","g","o","b","i">>,
     <<"b","a","i","n","g","a","n"," ","b","h","a","r","t","a">>,
     <<"a","l","o","o"," ","m","a","t","a","r">>,
     <<"m","u","s","h","r","o","o","m"," ","c","u","r","r","y">>,
     <<"v","e","g","e","t","a","b","l","e"," ","b","i","r","y","a","n","i">>,
     <<"p","a","n","e","e","r"," ","b","i","r","y","a","n","i">>,
     <<"m","u","s","h","r","o","o","m"," ","b","i","r","y","a","n","i">>,
     <<"v","e","g","e","t","a","b","l","e"," ","p","u","l","a","o">>,
     <<"j","e","e","r","a"," ","r","i","c","e">>,
     <<"c","o","c","o","n","u","t"," ","r","i","c","e">>,
     <<"l","e","m","o","n"," ","r","i","c","e">>,
     <<"t","a","m","a","r","i","n","d"," ","r","i","c","e">>,
     <<"c","u","r","d"," ","r","i","c","e">>,
     <<"b","i","s","i"," ","b","e","l","e"," ","b","a","t","h">>,
     <<"u","p","m","a">>,
     <<"p","o","h","a">>,
     <<"i","d","l","i">>,
     <<"d","o","s","a">>,
     <<"u","t","t","a","p","a","m">>,
     <<"p","a","n","c","a","k","e">>,
     <<"p","a","r","a","t","h","a">>,
     <<"r","o","t","i">>,
     <<"n","a","a","n">>,
     <<"k","u","l","c","h","a">>,
     <<"p","o","o","r","i">>,
     <<"c","h","a","p","a","t","i">>,
     <<"p","h","u","l","k","a">>,
     <<"t","h","e","p","l","a">>,
     <<"m","e","t","h","i"," ","t","h","e","p","l","a">>,
     <<"a","l","o","o"," ","p","a","r","a","t","h","a">>,
     <<"g","o","b","i"," ","p","a","r","a","t","h","a">>,
     <<"p","a","n","e","e","r"," ","p","a","r","a","t","h","a">>,
     <<"o","n","i","o","n"," ","p","a","r","a","t","h","a">>,
     <<"a","p","p","l","e">>,
     <<"b","a","n","a","n","a">>,
     <<"o","r","a","n","g","e">>,
     <<"m","a","n","g","o">>,
     <<"g","r","a","p","e","s">>,
     <<"s","t","r","a","w","b","e","r","r","y">>,
     <<"b","l","u","e","b","e","r","r","y">>,
     <<"p","i","n","e","a","p","p","l","e">>,
     <<"p","a","p","a","y","a">>,
     <<"g","u","a","v","a">>,
     <<"p","o","m","e","g","r","a","n","a","t","e">>,
     <<"w","a","t","e","r","m","e","l","o","n">>,
     <<"m","u","s","k","m","e","l","o","n">>,
     <<"c","o","c","o","n","u","t">>,
     <<"d","a","t","e","s">>,
     <<"f","i","g","s">>,
     <<"r","a","i","s","i","n","s">>,
     <<"d","r","y"," ","f","r","u","i","t","s">>,
     <<"n","u","t","s">>,
     <<"t","e","a">>,
     <<"c","o","f","f","e","e">>,
     <<"m","i","l","k">>,
     <<"l","a","s","s","i">>,
     <<"b","u","t","t","e","r","m","i","l","k">>,
     <<"j","u","i","c","e">>,
     <<"s","m","o","o","t","h","i","e">>,
     <<"l","e","m","o","n","a","d","e">>,
     <<"c","o","c","o","n","u","t"," ","w","a","t","e","r">>,
     <<"t","e","n","d","e","r"," ","c","o","c","o","n","u","t">> >>

NON_VEGETARIAN_INDICATORS ==
  << <<"c","h","i","c","k","e","n">>,
     <<"m","u","t","t","o","n">>,
     <<"l","a","m","b">>,
     <<"b","e","e","f">>,
     <<"p","o","r","k">>,
     <<"d","u","c","k">>,
     <<"t","u","r","k","e","y">>,
     <<"g","o","a","t">>,
     <<"m","e","a","t">>,
     <<"f","l","e","s","h">>,
     <<"p","r","o","t","e","i","n">>,
     <<"a","n","i","m","a","l">>,
     <<"f","i","s","h">>,
     <<"s","a","l","m","o","n">>,
     <<"t","u","n","a">>,
     <<"p","r","a","w","n">>,
     <<"s","h","r","i","m","p">>,
     <<"c","r","a","b">>,
     <<"l","o","b","s","t","e","r">>,
     <<"o","y","s","t","e","r">>,
     <<"m","u","s","s","e","l">>,
     <<"c","l","a","m">>,
     <<"s","q","u","i","d">>,
     <<"o","c","t","o","p","u","s">>,
     <<"s","e","a","f","o","o","d">>,
     <<"m","a","r","i","n","e">>,
     <<"s","e","a"," ","f","o","o","d">>,
     <<"e","g","g">>,
     <<"e","g","g","s">>,
     <<"o","m","e","l","e","t","t","e">>,
     <<"s","c","r","a","m","b","l","e","d">>,
     <<"b","o","i","l","e","d"," ","e","g","g">>,
     <<"f","r","i","e","d"," ","e","g","g">>,
     <<"e","g","g"," ","c","u","r","r","y">>,
     <<"e","g","g"," ","b","i","r","y","a","n","i">>,
     <<"e","g","g"," ","r","o","l","l">>,
     <<"e","g","g"," ","s","a","n","d","w","i","c","h">>,
     <<"n","o","n","-","v","e","g","e","t","a","r","i","a","n">>,
     <<"n","o","n"," ","v","e","g">>,
     <<"n","o","n","v","e","g">>,
     <<"n","o","n","v","e","g","e","t","a","r","i","a","n">>,
     <<"m","e","a","t"," ","c","u","r","r","y">>,
     <<"c","h","i","c","k","e","n"," ","c","u","r","r","y">>,
     <<"m","u","t","t","o","n"," ","c","u","r","r","y">>,
     <<"f","i","s","h"," ","c","u","r","r","y">>,
     <<"p","r","a","w","n"," ","c","u","r","r","y">>,
     <<"e","g","g"," ","c","u","r","r","y">>,
     <<"c","h","i","c","k","e","n"," ","b","i","r","y","a","n","i">>,
     <<"m","u","t","t","o","n"," ","b","i","r","y","a","n","i">>,
     <<"f","i","s","h"," ","b","i","r","y","a","n","i">>,
     <<"p","r","a","w","n"," ","b","i","r","y","a","n","i">>,
     <<"e","g","g"," ","b","i","r","y","a","n","i">>,
     <<"c","h","i","c","k","e","n"," ","t","i","k","k","a">>,
     <<"m","u","t","t","o","n"," ","t","i","k","k","a">>,
     <<"f","i","s","h"," ","t","i","k","k","a">>,
     <<"p","r","a","w","n"," ","t","i","k","k","a">>,
     <<"c","h","i","c","k","e","n"," ","m","a","s","a","l","a">>,
     <<"m","u","t","t","o","n"," ","m","a","s","a","l","a">>,
     <<"f","i","s","h"," ","m","a","s","a","l","a">>,
     <<"p","r","a","w","n"," ","m","a","s","a","l","a">>,
     <<"c","h","i","c","k","e","n"," ","k","o","r","m","a">>,
     <<"m","u","t","t","o","n"," ","k","o","r","m","a">>,
     <<"f","i","s","h"," ","k","o","r","m","a">>,
     <<"p","r","a","w","n"," ","k","o","r","m","a">>,
     <<"c","h","i","c","k","e","n"," ","t","a","n","d","o","o","r","i">>,
     <<"m","u","t","t","o","n"," ","t","a","n","d","o","o","r","i">>,
     <<"f","i","s","h"," ","t","a","n","d","o","o","r","i">>,
     <<"p","r","a","w","n"," ","t","a","n","d","o","o","r","i">>,
     <<"c","h","i","c","k","e","n"," ","6","5">>,
     <<"m","u","t","t","o","n"," ","6","5">>,
     <<"f","i","s","h"," ","6","5">>,
     <<"p","r","a","w","n"," ","6","5">>,
     <<"c","h","i","c","k","e","n"," ","l","o","l","l","i","p","o","p">>,
     <<"m","u","t","t","o","n"," ","s","e","e","k","h">>,
     <<"f","i","s","h"," ","f","r","y">>,
     <<"p","r","a","w","n"," ","f","r","y">>,
     <<"c","h","i","c","k","e","n"," ","f","r","y">>,
     <<"m","u","t","t","o","n"," ","f","r","y">>,
     <<"c","h","i","c","k","e","n"," ","r","o","l","l">>,
     <<"m","u","t","t","o","n"," ","r","o","l","l">>,
     <<"f","i","s","h"," ","r","o","l","l">>,
     <<"p","r","a","w","n"," ","r","o","l","l">>,
     <<"e","g","g"," ","r","o","l","l">>,
     <<"c","h","i","c","k","e","n"," ","s","a","n","d","w","i","c","h">>,
     <<"m","u","t","t","o","n"," ","s","a","n","d","w","i","c","h">>,
     <<"f","i","s","h"," ","s","a","n","d","w","i","c","h">>,
     <<"p","r","a","w","n"," ","s","a","n","d","w","i","c","h">>,
     <<"e","g","g"," ","s","a","n","d","w","i","c","h">>,
     <<"c","h","i","c","k","e","n"," ","b","u","r","g","e","r">>,
     <<"m","u","t","t","o","n"," ","b","u","r","g","e","r">>,
     <<"f","i","s","h"," ","b","u","r","g","e","r">>,
     <<"p","r","a","w","n"," ","b","u","r","g","e","r">>,
     <<"e","g","g"," ","b","u","r","g","e","r">>,
     <<"c","h","i","c","k","e","n"," ","p","i","z","z","a">>,
     <<"m","u","t","t","o","n"," ","p","i","z","z","a">>,
     <<"f","i","s","h"," ","p","i","z","z","a">>,
     <<"p","r","a","w","n"," ","p","i","z","z","a">>,
     <<"e","g","g"," ","p","i","z","z","a">>,
     <<"c","h","i","c","k","e","n"," ","p","a","s","t","a">>,
     <<"m","u","t","t","o","n"," ","p","a","s","t","a">>,
     <<"f","i","s","h"," ","p","a","s","t","a">>,
     <<"p","r","a","w","n"," ","p","a","s","t","a">>,
     <<"e","g","g"," ","p","a","s","t","a">>,
     <<"c","h","i","c","k","e","n"," ","n","o","o","d","l","e","s">>,
     <<"m","u","t","t","o","n"," ","n","o","o","d","l","e","s">>,
     <<"f","i","s","h"," ","n","o","o","d","l","e","s">>,
     <<"p","r","a","w","n"," ","n","o","o","d","l","e","s">>,
     <<"e","g","g"," ","n","o","o","d","l","e","s">>,
     <<"c","h","i","c","k","e","n"," ","s","o","u","p">>,
     <<"m","u","t","t","o","n"," ","s","o","u","p">>,
     <<"f","i","s","h"," ","s","o","u","p">>,
     <<"p","r","a","w","n"," ","s","o","u","p">>,
     <<"e","g","g"," ","s","o","u","p">>,
     <<"c","h","i","c","k","e","n"," ","s","t","e","w">>,
     <<"m","u","t","t","o","n"," ","s","t","e","w">>,
     <<"f","i","s","h"," ","s","t","e","w">>,
     <<"p","r","a","w","n"," ","s","t","e","w">>,
     <<"e","g","g"," ","s","t","e","w">>,
     <<"c","h","i","c","k","e","n"," ","g","r","a","v","y">>,
     <<"m","u","t","t","o","n"," ","g","r","a","v","y">>,
     <<"f","i","s","h"," ","g","r","a","v","y">>,
     <<"p","r","a","w","n"," ","g","r","a","v","y">>,
     <<"e","g","g"," ","g","r","a","v","y">>,
     <<"c","h","i","c","k","e","n"," ","s","a","u","c","e">>,
     <<"m","u","t","t","o","n"," ","s","a","u","c","e">>,
     <<"f","i","s","h"," ","s","a","u","c","e">>,
     <<"p","r","a","w","n"," ","s","a","u","c","e">>,
     <<"e","g","g"," ","s","a","u","c","e">>,
     <<"c","h","i","c","k","e","n"," ","c","h","u","t","n","e","y">>,
     <<"m","u","t","t","o","n"," ","c","h","u","t","n","e","y">>,
     <<"f","i","s","h"," ","c","h","u","t","n","e","y">>,
     <<"p","r","a","w","n"," ","c","h","u","t","n","e","y">>,
     <<"e","g","g"," ","c","h","u","t","n","e","y">>,
     <<"c","h","i","c","k","e","n"," ","p","i","c","k","l","e">>,
     <<"m","u","t","t","o","n"," ","p","i","c","k","l","e">>,
     <<"f","i","s","h"," ","p","i","c","k","l","e">>,
     <<"p","r","a","w","n"," ","p","i","c","k","l","e">>,
     <<"e","g","g"," ","p","i","c","k","l","e">>,
     <<"c","h","i","c","k","e","n"," ","r","a","i","t","a">>,
     <<"m","u","t","t","o","n"," ","r","a","i","t","a">>,
     <<"f","i","s","h"," ","r","a","i","t","a">>,
     <<"p","r","a","w","n"," ","r","a","i","t","a">>,
     <<"e","g","g"," ","r","a","i","t","a">>,
     <<"g","r","i","l","l","e","d"," ","c","h","i","c","k","e","n">>,
     <<"r","o","a","s","t","e","d"," ","c","h","i","c","k","e","n">>,
     <<"b","a","k","e","d"," ","c","h","i","c","k","e","n">>,
     <<"f","r","i","e","d"," ","c","h","i","c","k","e","n">>,
     <<"s","t","e","a","m","e","d"," ","f","i","s","h">>,
     <<"g","r","i","l","l","e","d"," ","f","i","s","h">>,
     <<"r","o","a","s","t","e","d"," ","f","i","s","h">>,
     <<"b","a","k","e","d"," ","f","i","s","h">>,
     <<"f","r","i","e","d"," ","f","i","s","h">>,
     <<"g","r","i","l","l","e","d"," ","m","u","t","t","o","n">>,
     <<"r","o","a","s","t","e","d"," ","m","u","t","t","o","n">>,
     <<"b","a","k","e","d"," ","m","u","t","t","o","n">>,
     <<"f","r","i","e","d"," ","m","u","t","t","o","n">>,
     <<"g","r","i","l","l","e","d"," ","p","r","a","w","n">>,
     <<"r","o","a","s","t","e","d"," ","p","r","a","w","n">>,
     <<"b","a","k","e","d"," ","p","r","a","w","n">>,
     <<"f","r","i","e","d"," ","p","r","a","w","n">>,
     <<"g","r","i","l","l","e","d"," ","e","g","g">>,
     <<"r","o","a","s","t","e","d"," ","e","g","g">>,
     <<"b","a","k","e","d"," ","e","g","g">>,
     <<"f","r","i","e","d"," ","e","g","g">>,
     <<"b","u","t","t","e","r"," ","c","h","i","c","k","e","n">>,
     <<"c","h","i","c","k","e","n"," ","t","i","k","k","a"," ","m","a","s","a","l","a">>,
     <<"m","u","t","t","o","n"," ","t","i","k","k","a"," ","m","a","s","a","l","a">>,
     <<"f","i","s","h"," ","t","i","k","k","a"," ","m","a","s","a","l","a">>,
     <<"p","r","a","w","n"," ","t","i","k","k","a"," ","m","a","s","a","l","a">>,
     <<"e","g","g"," ","t","i","k","k","a"," ","m","a","s","a","l","a">>,
     <<"c","h","i","c","k","e","n"," ","k","o","r","m","a">>,
     <<"m","u","t","t","o","n"," ","k","o","r","m","a">>,
     <<"f","i","s","h"," ","k","o","r","m","a">>,
     <<"p","r","a","w","n"," ","k","o","r","m","a">>,
     <<"e","g","g"," ","k","o","r","m","a">>,
     <<"c","h","i","c","k","e","n"," ","v","i","n","d","a","l","o","o">>,
     <<"m","u","t","t","o","n"," ","v","i","n","d","a","l","o","o">>,
     <<"f","i","s","h"," ","v","i","n","d","a","l","o","o">>,
     <<"p","r","a","w","n"," ","v","i","n","d","a","l","o","o">>,
     <<"e","g","g"," ","v","i","n","d","a","l","o","o">>,
     <<"c","h","i","c","k","e","n"," ","j","a","l","f","r","e","z","i">>,
     <<"m","u","t","t","o","n"," ","j","a","l","f","r","e","z","i">>,
     <<"f","i","s","h"," ","j","a","l","f","r","e","z","i">>,
     <<"p","r","a","w","n"," ","j","a","l","f","r","e","z","i">>,
     <<"e","g","g"," ","j","a","l","f","r","e","z","i">>,
     <<"c","h","i","c","k","e","n"," ","d","o","p","i","a","z","a">>,
     <<"m","u","t","t","o","n"," ","d","o","p","i","a","z","a">>,
     <<"f","i","s","h"," ","d","o","p","i","a","z","a">>,
     <<"p","r","a","w","n"," ","d","o","p","i","a","z","a">>,
     <<"e","g","g"," ","d","o","p","i","a","z","a">>,
     <<"c","h","i","c","k","e","n"," ","m","a","k","h","a","n","i">>,
     <<"m","u","t","t","o","n"," ","m","a","k","h","a","n","i">>,
     <<"f","i","s","h"," ","m","a","k","h","a","n","i">>,
     <<"p","r","a","w","n"," ","m","a","k","h","a","n","i">>,
     <<"e","g","g"," ","m","a","k","h","a","n","i">>,
     <<"c","h","i","c","k","e","n"," ","k","a","d","a","i">>,
     <<"m","u","t","t","o","n"," ","k","a","d","a","i">>,
     <<"f","i","s","h"," ","k","a","d","a","i">>,
     <<"p","r","a","w","n"," ","k","a","d","a","i">>,
     <<"e","g","g"," ","k","a","d","a","i">>,
     <<"c","h","i","c","k","e","n"," ","c","h","e","t","t","i","n","a","d">>,
     <<"m","u","t","t","o","n"," ","c","h","e","t","t","i","n","a","d">>,
     <<"f","i","s","h"," ","c","h","e","t","t","i","n","a","d">>,
     <<"p","r","a","w","n"," ","c","h","e","t","t","i","n","a","d">>,
     <<"e","g","g"," ","c","h","e","t","t","i","n","a","d">>,
     <<"c","h","i","c","k","e","n"," ","h","y","d","e","r","a","b","a","d","i">>,
     <<"m","u","t","t","o","n"," ","h","y","d","e","r","a","b","a","d","i">>,
     <<"f","i","s","h"," ","h","y","d","e","r","a","b","a","d","i">>,
     <<"p","r","a","w","n"," ","h","y","d","e","r","a","b","a","d","i">>,
     <<"e","g","g"," ","h","y","d","e","r","a","b","a","d","i">>,
     <<"c","h","i","c","k","e","n"," ","k","e","r","a","l","a">>,
     <<"m","u","t","t","o","n"," ","k","e","r","a","l","a">>,
     <<"f","i","s","h"," ","k","e","r","a","l","a">>,
     <<"p","r","a","w","n"," ","k","e","r","a","l","a">>,
     <<"e","g","g"," ","k","e","r","a","l","a">>,
     <<"c","h","i","c","k","e","n"," ","g","o","a","n">>,
     <<"m","u","t","t","o","n"," ","g","o","a","n">>,
     <<"f","i","s","h"," ","g","o","a","n">>,
     <<"p","r","a","w","n"," ","g","o","a","n">>,
     <<"e","g","g"," ","g","o","a","n">>,
     <<"c","h","i","c","k","e","n"," ","b","e","n","g","a","l","i">>,
     <<"m","u","t","t","o","n"," ","b","e","n","g","a","l","i">>,
     <<"f","i","s","h"," ","b","e","n","g","a","l","i">>,
     <<"p","r","a","w","n"," ","b","e","n","g","a","l","i">>,
     <<"e","g","g"," ","b","e","n","g","a","l","i">>,
     <<"c","h","i","c","k","e","n"," ","p","u","n","j","a","b","i">>,
     <<"m","u","t","t","o","n"," ","p","u","n","j","a","b","i">>,
     <<"f","i","s","h"," ","p","u","n","j","a","b","i">>,
     <<"p","r","a","w","n"," ","p","u","n","j","a","b","i">>,
     <<"e","g","g"," ","p","u","n","j","a","b","i">>,
     <<"c","h","i","c","k","e","n"," ","s","o","u","t","h"," ","i","n","d","i","a","n">>,
     <<"m","u","t","t","o","n"," ","s","o","u","t","h"," ","i","n","d","i","a","n">>,
     <<"f","i","s","h"," ","s","o","u","t","h"," ","i","n","d","i","a","n">>,
     <<"p","r","a","w","n"," ","s","o","u","t","h"," ","i","n","d","i","a","n">>,
     <<"e","g","g"," ","s","o","u","t","h"," ","i","n","d","i","a","n">>,
     <<"c","h","i","c","k","e","n"," ","n","o","r","t","h"," ","i","n","d","i","a","n">>,
     <<"m","u","t","t","o","n"," ","n","o","r","t","h"," ","i","n","d","i","a","n">>,
     <<"f","i","s","h"," ","n","o","r","t","h"," ","i","n","d","i","a","n">>,
     <<"p","r","a","w","n"," ","n","o","r","t","h"," ","i","n","d","i","a","n">>,
     <<"e","g","g"," ","n","o","r","t","h"," ","i","n","d","i","a","n">>,
     <<"c","h","i","c","k","e","n"," ","w","e","s","t"," ","i","n","d","i","a","n">>,
     <<"m","u","t","t","o","n"," ","w","e","s","t"," ","i","n","d","i","a","n">>,
     <<"f","i","s","h"," ","w","e","s","t"," ","i","n","d","i","a","n">>,
     <<"p","r","a","w","n"," ","w","e","s","t"," ","i","n","d","i","a","n">>,
     <<"e","g","g"," ","w","e","s","t"," ","i","n","d","i","a","n">>,
     <<"c","h","i","c","k","e","n"," ","e","a","s","t"," ","i","n","d","i","a","n">>,
     <<"m","u","t","t","o","n"," ","e","a","s","t"," ","i","n","d","i","a","n">>,
     <<"f","i","s","h"," ","e","a","s","t"," ","i","n","d","i","a","n">>,
     <<"p","r","a","w","n"," ","e","a","s","t"," ","i","n","d","i","a","n">>,
     <<"e","g","g"," ","e","a","s","t"," ","i","n","d","i","a","n">> >>

STRONG_VEGETARIAN_INDICATORS ==
  << <<"v","e","g","e","t","a","r","i","a","n">>,
     <<"v","e","g","g","i","e">>,
     <<"v","e","g","a","n">>,
     <<"p","u","r","e"," ","v","e","g">>,
     <<"p","u","r","e"," ","v","e","g","e","t","a","r","i","a","n">>,
     <<"s","a","t","t","v","i","c">>,
     <<"j","a","i","n">>,
     <<"b","r","a","h","m","i","n">>,
     <<"p","u","r","e"," ","v","e","g"," ","r","e","s","t","a","u","r","a","n","t">> >>

STRONG_NON_VEGETARIAN_INDICATORS ==
  << <<"n","o","n","-","v","e","g","e","t","a","r","i","a","n">>,
     <<"n","o","n"," ","v","e","g">>,
     <<"n","o","n","v","e","g">>,
     <<"n","o","n","v","e","g","e","t","a","r","i","a","n">>,
     <<"m","e","a","t">>,
     <<"c","h","i","c","k","e","n">>,
     <<"m","u","t","t","o","n">>,
     <<"f","i","s","h">>,
     <<"p","r","a","w","n">>,
     <<"e","g","g">>,
     <<"s","e","a","f","o","o","d">>,
     <<"m","a","a","s">> >>

(***************************************************************************)
(* Strings                                                                 *)
(***************************************************************************)
Null == "<null>"

UpperCaseLetters ==
  <<"A","B","C","D","E","F","G","H","I","J","K","L","M",
    "N","O","P","Q","R","S","T","U","V","W","X","Y","Z">>

LowerCaseLetters ==
  <<"a","b","c","d","e","f","g","h","i","j","k","l","m",
    "n","o","p","q","r","s","t","u","v","w","x","y","z">>

Digits == {"0","1","2","3","4","5","6","7","8","9"}

WhiteSpace == {" ", "\t", "\n"}

LowerChar(c) ==
  IF \E p \in 1..26 : UpperCaseLetters[p] = c
  THEN LowerCaseLetters[CHOOSE p \in 1..26 : UpperCaseLetters[p] = c]
  ELSE c

\* String.prototype.toLowerCase
toLowerCase(s) == SubSeq([p \in 1..Len(s) |-> LowerChar(s[p])], 1, Len(s))

\* String.prototype.includes
includes(text, indicator) ==
  \E p \in 1..(Len(text) - Len(indicator) + 1) :
    SubSeq(text, p, p + Len(indicator) - 1) = indicator

\* number of entries of a table (repetitions counted) that occur in text
CountMatches(text, table) ==
  Cardinality({p \in 1..Len(table) : includes(text, table[p])})

AnyMatch(text, table) == \E p \in 1..Len(table) : includes(text, table[p])

(***************************************************************************)
(* Dietary classifier (src/vegetarian-detection.js)                        *)
(***************************************************************************)
\* ClassifyText with the two strong tables consulted in the other order
ClassifyTextVegetarianFirst(text) ==
  IF AnyMatch(text, STRONG_VEGETARIAN_INDICATORS) THEN TRUE
  ELSE IF AnyMatch(text, STRONG_NON_VEGETARIAN_INDICATORS) THEN FALSE
  ELSE LET vegetarianScore == CountMatches(text, VEGETARIAN_INDICATORS)
           nonVegetarianScore == CountMatches(text, NON_VEGETARIAN_INDICATORS)
       IN  IF vegetarianScore = 0 /\ nonVegetarianScore = 0 THEN TRUE
           ELSE vegetarianScore >= nonVegetarianScore

\* the scoring shared by the two detectors once the text is built
ClassifyText(text) ==
  IF AnyMatch(text, STRONG_NON_VEGETARIAN_INDICATORS) THEN FALSE
  ELSE IF AnyMatch(text, STRONG_VEGETARIAN_INDICATORS) THEN TRUE
  ELSE LET vegetarianScore == CountMatches(text, VEGETARIAN_INDICATORS)
           nonVegetarianScore == CountMatches(text, NON_VEGETARIAN_INDICATORS)
       IN  IF vegetarianScore = 0 /\ nonVegetarianScore = 0 THEN TRUE
           ELSE vegetarianScore >= nonVegetarianScore

\* a missing description is the empty text (description || '')
detectMealVegetarian(mealName, description) ==
  IF mealName = <<>> THEN TRUE
  ELSE ClassifyText(toLowerCase(mealName \o <<" ">> \o description))

\* detectImageVegetarian with the url left out of the text
detectImageVegetarianByName(imageUrl, imageName, description) ==
  IF imageUrl = <<>> THEN TRUE
  ELSE ClassifyText(toLowerCase(imageName \o <<" ">> \o description))

detectImageVegetarian(imageUrl, imageName, description) ==
  IF imageUrl = <<>> THEN TRUE
  ELSE ClassifyText(toLowerCase(imageUrl \o <<" ">> \o imageName \o <<" ">> \o description))

(***************************************************************************)
(* Configuration (src/index.js, CONFIG).  The thresholds are the defaults  *)
(* of the source, 0.2, in thousandths.  MAX_MEALS_PER_BATCH is read from   *)
(* the environment; the model runs with the value 2.                       *)
(***************************************************************************)
Scale == 1000

COSINE_SIMILARITY_THRESHOLD == 200

TEXT_SIMILARITY_THRESHOLD == 200

MAX_MEALS_PER_BATCH == 2

TimeoutBufferMs == 30000

(***************************************************************************)
(* Similarity scorers (src/index.js)                                       *)
(***************************************************************************)
RECURSIVE SumTo(_, _)
SumTo(f, n) == IF n = 0 THEN 0 ELSE f[n] + SumTo(f, n - 1)

\* Sqrt left out: the squared norm is taken for the norm
SquaredNorm(n) == n

\* Math.sqrt on the squared norms of the model's vectors, which are
\* perfect squares (VectorPool)
Sqrt(n) == CHOOSE r \in 0..n : r * r <= n /\ (r + 1) * (r + 1) > n

\* Quotient without the test of index.js:322: 0/0 is NaN, shown as a
\* number outside the range of a cosine
QuotientUnguarded(dotProduct, magnitude) ==
  IF magnitude = 0 THEN 2 * Scale
  ELSE (dotProduct * Scale) \div magnitude

\* index.js:322, in thousandths
Quotient(dotProduct, magnitude) ==
  IF magnitude = 0 THEN 0
  ELSE (dotProduct * Scale) \div magnitude

\* calculateCosineSimilarity without the test of index.js:307-309: the
\* loop runs over vectorA and stops contributing where vectorB ends
calculateCosineSimilarityUnchecked(vectorA, vectorB) ==
  LET n == IF Len(vectorA) <= Len(vectorB) THEN Len(vectorA) ELSE Len(vectorB)
      dotProduct == SumTo([p \in 1..n |-> vectorA[p] * vectorB[p]], n)
      normA == SumTo([p \in 1..n |-> vectorA[p] * vectorA[p]], n)
      normB == SumTo([p \in 1..n |-> vectorB[p] * vectorB[p]], n)
      magnitude == Sqrt(normA) * Sqrt(normB)
  IN  [threw |-> FALSE, value |-> Quotient(dotProduct, magnitude)]

\* the value when it returns, or the thrown message
calculateCosineSimilarity(vectorA, vectorB) ==
  IF Len(vectorA) # Len(vectorB)
  THEN [threw |-> TRUE,
        message |-> <<"Vector length mismatch", Len(vectorA), Len(vectorB)>>]
  ELSE LET n == Len(vectorA)
           dotProduct == SumTo([p \in 1..n |-> vectorA[p] * vectorB[p]], n)
           normA == SumTo([p \in 1..n |-> vectorA[p] * vectorA[p]], n)
           normB == SumTo([p \in 1..n |-> vectorB[p] * vectorB[p]], n)
           magnitude == Sqrt(normA) * Sqrt(normB)
       IN  [threw |-> FALSE, value |-> Quotient(dotProduct, magnitude)]

\* split(/\s+/) followed by filter(word => word.length > 0)
RECURSIVE SplitWords(_, _, _)
SplitWords(chars, word, acc) ==
  IF chars = <<>>
  THEN IF word = <<>> THEN acc ELSE Append(acc, word)
  ELSE IF Head(chars) \in WhiteSpace
       THEN SplitWords(Tail(chars), <<>>,
                       IF word = <<>> THEN acc ELSE Append(acc, word))
       ELSE SplitWords(Tail(chars), Append(word, Head(chars)), acc)

IsWordChar(c) ==
  \/ \E p \in 1..26 : LowerCaseLetters[p] = c
  \/ c \in Digits
  \/ c \in WhiteSpace

\* lower-case, drop every character outside [a-z0-9\s], split into words
normalize(text) ==
  SplitWords(SelectSeq(toLowerCase(text), IsWordChar), <<>>, <<>>)

Range(s) == {s[p] : p \in 1..Len(s)}

\* calculateTextSimilarity on the word lists instead of the Sets of
\* index.js:343-344: a repeated word counts as often as it occurs
calculateTextSimilarityOfLists(text1, text2) ==
  LET words1 == normalize(text1)
      words2 == normalize(text2)
      common == Cardinality({p \in 1..Len(words1) : words1[p] \in Range(words2)})
  IN  IF Len(words1) = 0 /\ Len(words2) = 0 THEN Scale
      ELSE IF Len(words1) = 0 \/ Len(words2) = 0 THEN 0
      ELSE (common * Scale) \div (Len(words1) + Len(words2) - common)

calculateTextSimilarity(text1, text2) ==
  LET words1 == normalize(text1)
      words2 == normalize(text2)
      set1 == Range(words1)
      set2 == Range(words2)
  IN  IF Len(words1) = 0 /\ Len(words2) = 0 THEN Scale
      ELSE IF Len(words1) = 0 \/ Len(words2) = 0 THEN 0
      ELSE (Cardinality(set1 \cap set2) * Scale) \div Cardinality(set1 \cup set2)

(***************************************************************************)
(* Inputs of the model: vectors, meal names, catalog images, the cuisines  *)
(* file and the meal-plan documents.                                       *)
(***************************************************************************)
\* embedding vectors; every one has an integer norm (0, 5 or 17), one is
\* shorter than the others, and <<15, -8>> has the cosine 13/85 with
\* <<3, 4>>, which is positive and below the threshold
VectorPool ==
  { <<3, 4>>, <<4, 3>>, <<4, -3>>, <<0, -5>>, <<-3, -4>>, <<0, 0>>, <<5>>,
    <<15, -8>> }

DalMakhani == <<"D","a","l"," ","M","a","k","h","a","n","i">>

ChickenBiryani == <<"C","h","i","c","k","e","n"," ","B","i","r","y","a","n","i">>

PaneerTikka == <<"P","a","n","e","e","r"," ","T","i","k","k","a">>

UnknownDish == <<"U","n","k","n","o","w","n"," ","D","i","s","h"," ","X","Y","Z">>

MealNamePool == {DalMakhani, ChickenBiryani, PaneerTikka, UnknownDish}

\* the embedding provider's answer for a meal name, when it answers
EmbeddingOf(mealName) ==
  IF mealName = DalMakhani THEN <<3, 4>>
  ELSE IF mealName = ChickenBiryani THEN <<4, 3>>
  ELSE IF mealName = UnknownDish THEN <<5>>
  ELSE <<-3, -4>>

\* catalog images (data/image-embeddings.json); isVegetarian is optional
ImgChicken ==
  [name |-> <<"C","h","i","c","k","e","n"," ","B","i","r","y","a","n","i"," ","I","m","a","g","e">>,
   url |-> <<"h","t","t","p","s",":","/","/","e","x","a","m","p","l","e",".","c","o","m","/","c","h","i","c","k","e","n","-","b","i","r","y","a","n","i",".","j","p","g">>,
   embedding |-> <<4, 3>>]

ImgVegCurry ==
  [name |-> <<"V","e","g","e","t","a","b","l","e"," ","C","u","r","r","y"," ","I","m","a","g","e">>,
   url |-> <<"h","t","t","p","s",":","/","/","e","x","a","m","p","l","e",".","c","o","m","/","v","e","g","e","t","a","b","l","e","-","c","u","r","r","y",".","j","p","g">>,
   embedding |-> <<0, -5>>]

ImgDal ==
  [name |-> <<"D","a","l"," ","M","a","k","h","a","n","i">>,
   url |-> <<"h","t","t","p","s",":","/","/","e","x","a","m","p","l","e",".","c","o","m","/","d","a","l","-","m","a","k","h","a","n","i",".","j","p","g">>,
   description |-> <<"B","l","a","c","k"," ","l","e","n","t","i","l","s">>,
   isVegetarian |-> TRUE,
   embedding |-> <<4, -3>>]

ImgSpecial ==
  [name |-> <<"C","h","e","f"," ","S","p","e","c","i","a","l"," ","B","i","r","y","a","n","i">>,
   url |-> <<"h","t","t","p","s",":","/","/","e","x","a","m","p","l","e",".","c","o","m","/","s","p","e","c","i","a","l",".","j","p","g">>,
   isVegetarian |-> FALSE,
   embedding |-> <<3, 4>>]

\* a record with a name and a vector only: the url of a result is taken
\* from the name index (index.js:401), the record needs none
ImgButterChicken ==
  [name |-> <<"B","u","t","t","e","r"," ","C","h","i","c","k","e","n">>,
   embedding |-> <<3, 4>>]

ImagePool == {ImgChicken, ImgVegCurry, ImgDal, ImgSpecial, ImgButterChicken}

\* data/cuisines.json: the last entry has no imageUrl
CuisinesFile ==
  << [name |-> ImgChicken.name, imageUrl |-> "cdn/chicken-biryani.jpg"],
     [name |-> ImgVegCurry.name, imageUrl |-> "cdn/vegetable-curry.jpg"],
     [name |-> ImgDal.name, imageUrl |-> "cdn/dal-makhani.jpg"],
     [name |-> ImgButterChicken.name, imageUrl |-> "cdn/butter-chicken.jpg"],
     [name |-> ImgSpecial.name] >>

\* the contents data/image-embeddings.json may have
CatalogFiles ==
  { <<>>,
    <<ImgChicken>>,
    <<ImgChicken, ImgDal, ImgVegCurry>> }

(***************************************************************************)
(* State                                                                   *)
(***************************************************************************)
VARIABLES
  cuisineMap,        \* module-level cache of the name index (index.js:136)
  imageEmbeddings,   \* module-level cache of the catalog (index.js:137)
  mappingStore,      \* documents of the mealImageMappings collection
  invocations,       \* handler invocations started in this process
  pc,                \* position of the running handler
  event,             \* the event of the running invocation
  mode,              \* handler local
  mealsToProcess,    \* handler local
  i,                 \* handler loop index
  allResults,        \* handler local
  batchResults,      \* results of the batch being processed
  processedCount,    \* handler local
  response,          \* the returned response, statusCode 0 while running
  calls,             \* external calls made by the running invocation
  matchInput,        \* arguments of a direct call of one function
  matchOutput        \* what that call returned or threw

handlerVars ==
  <<invocations, pc, event, mode, mealsToProcess, i, allResults,
    batchResults, processedCount, response, calls>>

vars ==
  <<cuisineMap, imageEmbeddings, mappingStore, invocations, pc, event, mode,
    mealsToProcess, i, allResults, batchResults, processedCount, response,
    calls, matchInput, matchOutput>>

(***************************************************************************)
(* Match selector (src/index.js, findBestImageMatch)                       *)
(***************************************************************************)
Field(rec, name, default) == IF name \in DOMAIN rec THEN rec[name] ELSE default

\* the texts the image classifier is applied to in the model
ImageTextPool ==
  {<<Field(img, "url", <<>>), img.name, Field(img, "description", <<>>)>> :
     img \in ImagePool}

\* the classifier's verdict on each of them, computed once
DetectedImageVegetarian ==
  [t \in ImageTextPool |-> detectImageVegetarian(t[1], t[2], t[3])]

\* index.js:366-368
ResolveImageVegetarian(img) ==
  IF "isVegetarian" \in DOMAIN img
  THEN img.isVegetarian
  ELSE DetectedImageVegetarian[<<Field(img, "url", <<>>), img.name,
                                 Field(img, "description", <<>>)>>]

NoMatchReason == <<"No suitable match found">>

\* the locals of findBestImageMatch before the loop; bestMatch is the
\* position of the image in the catalog, 0 for null
ScanStart ==
  [bestMatch |-> 0, bestCosineScore |-> 0, bestTextScore |-> 0,
   method |-> "none", reason |-> NoMatchReason,
   threw |-> FALSE, message |-> <<>>]

\* index.js:371 without the fail-safe: no image is skipped
KeepsEveryImage(mealIsVegetarian, imageIsVegetarian) == TRUE

\* index.js:371, the vegetarian fail-safe: the image is skipped when the
\* meal is vegetarian and the image is not
KeepsImage(mealIsVegetarian, imageIsVegetarian) ==
  ~(mealIsVegetarian /\ ~imageIsVegetarian)

\* index.js:382 without "cosineScore > bestCosineScore"
CosineReplacesAtThreshold(acc, cosineScore) ==
  cosineScore >= COSINE_SIMILARITY_THRESHOLD

\* index.js:382, the condition of the cosine branch
CosineReplaces(acc, cosineScore) ==
  /\ cosineScore >= COSINE_SIMILARITY_THRESHOLD
  /\ cosineScore > acc.bestCosineScore

\* index.js:387 without "textScore > bestTextScore"
TextReplacesAtThreshold(acc, textScore) ==
  /\ acc.method # "cosine"
  /\ textScore >= TEXT_SIMILARITY_THRESHOLD

\* index.js:387, the condition of the text branch
TextReplaces(acc, textScore) ==
  /\ acc.method # "cosine"
  /\ textScore >= TEXT_SIMILARITY_THRESHOLD
  /\ textScore > acc.bestTextScore

\* index.js:383-386 without "method = 'cosine'": a cosine match does not
\* close the text branch
TakeCosineKeepingMethod(acc, k, cosineScore) ==
  [acc EXCEPT !.bestMatch = k,
              !.bestCosineScore = cosineScore,
              !.reason = <<"Cosine similarity", cosineScore, ">=",
                           COSINE_SIMILARITY_THRESHOLD>>]

\* index.js:383-386
TakeCosine(acc, k, cosineScore) ==
  [acc EXCEPT !.bestMatch = k,
              !.bestCosineScore = cosineScore,
              !.method = "cosine",
              !.reason = <<"Cosine similarity", cosineScore, ">=",
                           COSINE_SIMILARITY_THRESHOLD>>]

\* index.js:388-391
TakeText(acc, k, textScore) ==
  [acc EXCEPT !.bestMatch = k,
              !.bestTextScore = textScore,
              !.method = "text",
              !.reason = <<"Text similarity", textScore, ">=",
                           TEXT_SIMILARITY_THRESHOLD>>]

\* the loop body with the two branches of index.js:382-392 in the other
\* order: the text condition is tested first
ScanImageTextFirst(acc, k, mealName, mealEmbedding, mealIsVegetarian, images) ==
  LET imageEmbedding == images[k]
      imageIsVegetarian == ResolveImageVegetarian(imageEmbedding)
      cosine == calculateCosineSimilarity(mealEmbedding, imageEmbedding.embedding)
      cosineScore == cosine.value
      textScore == calculateTextSimilarity(mealName, imageEmbedding.name)
  IN  IF acc.threw THEN acc
      ELSE IF ~KeepsImage(mealIsVegetarian, imageIsVegetarian) THEN acc
      ELSE IF cosine.threw
           THEN [acc EXCEPT !.threw = TRUE, !.message = cosine.message]
      ELSE IF TextReplaces(acc, textScore) THEN TakeText(acc, k, textScore)
      ELSE IF CosineReplaces(acc, cosineScore) THEN TakeCosine(acc, k, cosineScore)
      ELSE acc

\* one iteration of the loop (index.js:364-393); an exception of
\* calculateCosineSimilarity leaves the loop
ScanImage(acc, k, mealName, mealEmbedding, mealIsVegetarian, images) ==
  LET imageEmbedding == images[k]
      imageIsVegetarian == ResolveImageVegetarian(imageEmbedding)
      cosine == calculateCosineSimilarity(mealEmbedding, imageEmbedding.embedding)
      cosineScore == cosine.value
      textScore == calculateTextSimilarity(mealName, imageEmbedding.name)
  IN  IF acc.threw THEN acc
      ELSE IF ~KeepsImage(mealIsVegetarian, imageIsVegetarian) THEN acc
      ELSE IF cosine.threw
           THEN [acc EXCEPT !.threw = TRUE, !.message = cosine.message]
      ELSE IF CosineReplaces(acc, cosineScore) THEN TakeCosine(acc, k, cosineScore)
      ELSE IF TextReplaces(acc, textScore) THEN TakeText(acc, k, textScore)
      ELSE acc

\* the locals after the first k images
RECURSIVE ScanImages(_, _, _, _, _)
ScanImages(k, mealName, mealEmbedding, mealIsVegetarian, images) ==
  IF k = 0 THEN ScanStart
  ELSE ScanImage(ScanImages(k - 1, mealName, mealEmbedding, mealIsVegetarian, images),
                 k, mealName, mealEmbedding, mealIsVegetarian, images)

\* the returned object, or the exception that leaves the function; the
\* url is read from the cached name index (index.js:401)
findBestImageMatch(mealName, mealEmbedding, mealIsVegetarian, images) ==
  LET scan == ScanImages(Len(images), mealName, mealEmbedding, mealIsVegetarian, images)
  IN  IF scan.threw
      THEN [threw |-> TRUE, message |-> scan.message]
      ELSE IF scan.bestMatch = 0
      THEN [threw |-> TRUE,
            message |-> <<"Cannot read properties of null (reading 'name')">>]
      ELSE IF images[scan.bestMatch].name \notin DOMAIN cuisineMap.entries
      THEN [threw |-> TRUE,
            message |-> <<"Cannot read properties of undefined (reading 'imageUrl')">>]
      ELSE [threw |-> FALSE,
            bestMatch |-> scan.bestMatch,
            cosineScore |-> scan.bestCosineScore,
            textScore |-> scan.bestTextScore,
            method |-> scan.method,
            reason |-> scan.reason,
            url |-> cuisineMap.entries[images[scan.bestMatch].name].imageUrl]

(***************************************************************************)
(* Catalog and name index loading (src/index.js, loadCuisineMap and        *)
(* loadEmbeddings)                                                         *)
(***************************************************************************)
\* the map built from a parsed cuisines file: entries with a name and an
\* imageUrl, a later entry replacing an earlier one of the same name
CuisineEntries(cuisines) ==
  LET valid == {k \in 1..Len(cuisines) :
                  /\ Field(cuisines[k], "name", <<>>) # <<>>
                  /\ Field(cuisines[k], "imageUrl", "") # ""}
      last(n) == CHOOSE k \in valid :
                   /\ cuisines[k].name = n
                   /\ \A l \in valid : cuisines[l].name = n => l <= k
  IN  [n \in {cuisines[k].name : k \in valid} |-> cuisines[last(n)]]

\* s3Ok: whether the cuisines file could be fetched; a failure is caught
\* and an empty Map is returned (index.js:129-132)
loadCuisineMap(s3Ok) ==
  IF s3Ok THEN CuisineEntries(CuisinesFile) ELSE <<>>

(***************************************************************************)
(* Meal resolution (src/index.js, processRequestMeals and                  *)
(* fetchUnmappedMeals)                                                     *)
(***************************************************************************)
days ==
  <<"sunday", "monday", "tuesday", "wednesday", "thursday", "friday", "saturday">>

mealTypes == <<"breakfast", "lunch", "dinner", "morningSnack", "eveningSnack">>

\* documents of the mealPlans collection: one in the legacy format, one
\* weekly plan whose slots hold a string, an object with a name and an
\* object without one
MealPlans ==
  << [id |-> "meal1",
      data |-> [name |-> DalMakhani, description |-> <<"C","r","e","a","m","y"," ","l","e","n","t","i","l","s">>]],
     [id |-> "plan1",
      data |-> [userId |-> "u1",
                meals |-> [monday |->
                             [breakfast |-> [type |-> "string", value |-> DalMakhani],
                              lunch |-> [type |-> "object", name |-> ChickenBiryani],
                              dinner |-> [type |-> "object"]]]]] >>

\* the texts the meal classifier is applied to in the model
MealTextPool ==
  {<<n, <<>>>> : n \in MealNamePool} \cup
  {<<MealPlans[d].data.name, Field(MealPlans[d].data, "description", <<>>)>> :
     d \in {d \in 1..Len(MealPlans) : "name" \in DOMAIN MealPlans[d].data}}

\* the classifier's verdict on each of them, computed once
DetectedMealVegetarian ==
  [t \in MealTextPool |-> detectMealVegetarian(t[1], t[2])]

processRequestMeals(mealNames) ==
  [index \in 1..Len(mealNames) |->
     [id |-> <<"request", ToString(index - 1)>>,
      name |-> mealNames[index],
      isVegetarian |-> DetectedMealVegetarian[<<mealNames[index], <<>>>>],
      day |-> Null, mealType |-> Null, originalDocId |-> Null]]

RECURSIVE Flatten(_)
Flatten(seqs) == IF seqs = <<>> THEN <<>> ELSE Head(seqs) \o Flatten(Tail(seqs))

\* ExistingMappings with the documents of the collection not consulted
ExistingMappingsIgnored(mappings) == {}

\* the names that have a document in the mapping collection
ExistingMappings(mappings) ==
  {mappings[k].mealName : k \in {k \in 1..Len(mappings) : mappings[k].mealName # <<>>}}

\* the meal pushed for one slot of a weekly plan, if any (index.js:240-271)
SlotMeals(doc, day, mealType, existingMappings) ==
  LET slots == doc.data.meals[day]
      mealDataItem == slots[mealType]
      mealName == IF mealDataItem.type = "string" THEN mealDataItem.value
                  ELSE Field(mealDataItem, "name", <<>>)
  IN  IF mealType \notin DOMAIN slots THEN <<>>
      ELSE IF mealName = <<>> \/ mealName \in existingMappings THEN <<>>
      ELSE << [id |-> <<doc.id, day, mealType>>,
               name |-> mealName,
               isVegetarian |-> DetectedMealVegetarian[<<mealName, <<>>>>],
               day |-> day, mealType |-> mealType, originalDocId |-> doc.id] >>

\* the meals pushed for one document (index.js:227-292); in the legacy
\* format the document's own fields are spread over the computed ones
DocMeals(doc, existingMappings) ==
  IF "meals" \in DOMAIN doc.data
  THEN Flatten([d \in 1..Len(days) |->
         IF days[d] \in DOMAIN doc.data.meals
         THEN Flatten([t \in 1..Len(mealTypes) |->
                SlotMeals(doc, days[d], mealTypes[t], existingMappings)])
         ELSE <<>>])
  ELSE IF Field(doc.data, "name", <<>>) # <<>> /\ doc.data.name \notin existingMappings
  THEN << [id |-> <<doc.id>>,
           name |-> doc.data.name,
           isVegetarian |->
             Field(doc.data, "isVegetarian",
                   DetectedMealVegetarian[<<doc.data.name,
                                            Field(doc.data, "description", <<>>)>>]),
           day |-> Field(doc.data, "day", Null),
           mealType |-> Field(doc.data, "mealType", Null),
           originalDocId |-> Field(doc.data, "originalDocId", Null)] >>
  ELSE <<>>

\* the list returned when both collections can be read
fetchUnmappedMeals(mealDocs, mappings) ==
  Flatten([d \in 1..Len(mealDocs) |-> DocMeals(mealDocs[d], ExistingMappings(mappings))])

(***************************************************************************)
(* Batch processing and persistence (src/index.js, processMealBatch and    *)
(* updateFirestoreMappings)                                                *)
(***************************************************************************)
EmbeddingError == <<"OpenAI API error">>

StoreReadError == <<"Failed to read from Firestore">>

StoreWriteError == <<"Failed to write to Firestore">>

CatalogError == <<"No embeddings data found">>

\* the result pushed for one meal (index.js:447-510); embeddingOk is the
\* embedding provider's outcome
MealResult(meal, embeddingOk, images) ==
  LET matchResult ==
        findBestImageMatch(meal.name, EmbeddingOf(meal.name), meal.isVegetarian, images)
      failure == IF embeddingOk THEN matchResult.message ELSE EmbeddingError
  IN  IF embeddingOk /\ ~matchResult.threw
      THEN [mealId |-> meal.id,
            mealName |-> meal.name,
            imageUrl |-> matchResult.url,
            imageName |-> images[matchResult.bestMatch].name,
            cosineScore |-> matchResult.cosineScore,
            textScore |-> matchResult.textScore,
            method |-> matchResult.method,
            reason |-> matchResult.reason,
            mealIsVegetarian |-> meal.isVegetarian,
            imageIsVegetarian |-> ResolveImageVegetarian(images[matchResult.bestMatch]),
            day |-> meal.day, mealType |-> meal.mealType,
            originalDocId |-> meal.originalDocId]
      ELSE [mealId |-> meal.id,
            mealName |-> meal.name,
            imageUrl |-> Null,
            method |-> "error",
            error |-> failure,
            day |-> meal.day, mealType |-> meal.mealType,
            originalDocId |-> meal.originalDocId]

\* the results updateFirestoreMappings writes (index.js:527)
IsMapped(result) == result.imageUrl # Null /\ result.method # "error"

Mapped(results) == SelectSeq(results, IsMapped)

\* the document written for a result (index.js:528-547)
MappingDoc(result) ==
  [mealId |-> result.mealId,
   mealName |-> result.mealName,
   imageUrl |-> result.imageUrl,
   imageName |-> result.imageName,
   cosineScore |-> result.cosineScore,
   textScore |-> result.textScore,
   method |-> result.method,
   reason |-> result.reason,
   mealIsVegetarian |-> result.mealIsVegetarian,
   imageIsVegetarian |-> result.imageIsVegetarian,
   day |-> result.day, mealType |-> result.mealType,
   originalDocId |-> result.originalDocId]

MappingDocs(results) ==
  [k \in 1..Len(Mapped(results)) |-> MappingDoc(Mapped(results)[k])]

(***************************************************************************)
(* Request bodies                                                          *)
(***************************************************************************)
\* event.body as the text of a JSON value, or a text that is no JSON
InvalidJsonBody == [json |-> FALSE]

NullBody == [json |-> TRUE, value |-> [type |-> "null"]]

StringMealNamesBody ==
  [json |-> TRUE,
   value |-> [type |-> "object",
              fields |-> [mealNames |-> [type |-> "string", value |-> DalMakhani]]]]

EmptyMealNamesBody ==
  [json |-> TRUE,
   value |-> [type |-> "object",
              fields |-> [mealNames |-> [type |-> "array", items |-> <<>>]]]]

MealNamesBody ==
  [json |-> TRUE,
   value |-> [type |-> "object",
              fields |-> [mealNames |->
                            [type |-> "array",
                             items |-> <<PaneerTikka, ChickenBiryani, DalMakhani>>]]]]

\* a request whose first meal gets an embedding of another length than
\* the catalog's (EmbeddingOf)
OtherLengthBody ==
  [json |-> TRUE,
   value |-> [type |-> "object",
              fields |-> [mealNames |->
                            [type |-> "array",
                             items |-> <<UnknownDish, DalMakhani>>]]]]

\* the events the handler is invoked with; the first has no body
Events ==
  { [source |-> "schedule"],
    [body |-> InvalidJsonBody],
    [body |-> NullBody],
    [body |-> StringMealNamesBody],
    [body |-> EmptyMealNamesBody],
    [body |-> MealNamesBody],
    [body |-> OtherLengthBody] }

\* JSON.parse
JSONParse(body) ==
  IF body.json THEN [threw |-> FALSE, value |-> body.value] ELSE [threw |-> TRUE]

\* RequestMealNames without the Array.isArray test of index.js:597
RequestMealNamesNoArrayTest(ev) ==
  LET parsed == JSONParse(ev.body)
      requestBody == parsed.value
  IN  IF "body" \notin DOMAIN ev THEN <<>>
      ELSE IF parsed.threw THEN <<>>
      ELSE IF requestBody.type = "null" THEN <<>>
      ELSE IF "mealNames" \notin DOMAIN requestBody.fields THEN <<>>
      ELSE IF requestBody.fields.mealNames.type # "array"
           THEN <<requestBody.fields.mealNames.value>>
      ELSE requestBody.fields.mealNames.items

\* index.js:594-605: the meal names of a request, <<>> when the body makes
\* none; reading a property of null throws inside the try block
RequestMealNames(ev) ==
  LET parsed == JSONParse(ev.body)
      requestBody == parsed.value
  IN  IF "body" \notin DOMAIN ev THEN <<>>
      ELSE IF parsed.threw THEN <<>>
      ELSE IF requestBody.type = "null" THEN <<>>
      ELSE IF "mealNames" \notin DOMAIN requestBody.fields THEN <<>>
      ELSE IF requestBody.fields.mealNames.type # "array" THEN <<>>
      ELSE requestBody.fields.mealNames.items

(***************************************************************************)
(* The handler (src/index.js, exports.handler)                             *)
(***************************************************************************)
MaxInvocations == 2

\* answers of context.getRemainingTimeInMillis()
RemainingTimes == {30000, 29999}

NoResponse == [statusCode |-> 0]

\* nothing called yet; remainingTime is the last answer of
\* context.getRemainingTimeInMillis(), -1 before the first
NoCalls ==
  [s3 |-> 0, getDocs |-> 0, embedding |-> <<>>, addDoc |-> 0, remainingTime |-> -1]

Init ==
  /\ cuisineMap = [loaded |-> FALSE, entries |-> <<>>]
  /\ imageEmbeddings = [loaded |-> FALSE, images |-> <<>>]
  /\ mappingStore = <<>>
  /\ invocations = 0
  /\ pc = "idle"
  /\ event = [source |-> "schedule"]
  /\ mode = "fetch"
  /\ mealsToProcess = <<>>
  /\ i = 0
  /\ allResults = <<>>
  /\ batchResults = <<>>
  /\ processedCount = 0
  /\ response = NoResponse
  /\ calls = NoCalls
  /\ matchInput = [given |-> FALSE]
  /\ matchOutput = [returned |-> FALSE]

\* the platform invokes the handler; invocations of one process do not
\* overlap
Invoke ==
  /\ pc \in {"idle", "done"}
  /\ invocations < MaxInvocations
  /\ invocations' = invocations + 1
  /\ \E ev \in Events : event' = ev
  /\ pc' = "load"
  /\ mode' = "fetch"
  /\ mealsToProcess' = <<>>
  /\ i' = 0
  /\ allResults' = <<>>
  /\ batchResults' = <<>>
  /\ processedCount' = 0
  /\ response' = NoResponse
  /\ calls' = NoCalls
  /\ UNCHANGED <<cuisineMap, imageEmbeddings, mappingStore, matchInput, matchOutput>>

ErrorResponse(message) ==
  [statusCode |-> 500, error |-> message, mode |-> mode,
   processedCount |-> processedCount]

\* LoadCached without the test of index.js:583: the files are requested
\* again and the caches reassigned
LoadCachedReloading ==
  /\ pc = "load"
  /\ cuisineMap.loaded /\ imageEmbeddings.loaded
  /\ calls' = [calls EXCEPT !.s3 = @ + 1]
  /\ \E catalog \in CatalogFiles :
       imageEmbeddings' = [loaded |-> TRUE, images |-> catalog]
  /\ cuisineMap' = [loaded |-> TRUE, entries |-> loadCuisineMap(TRUE)]
  /\ pc' = "resolve"
  /\ UNCHANGED <<mappingStore, invocations, event, mode, mealsToProcess, i,
                 allResults, batchResults, processedCount, response,
                 matchInput, matchOutput>>

\* index.js:583-588, the caches are already filled
LoadCached ==
  /\ pc = "load"
  /\ cuisineMap.loaded /\ imageEmbeddings.loaded
  /\ pc' = "resolve"
  /\ UNCHANGED <<cuisineMap, imageEmbeddings, mappingStore, invocations, event,
                 mode, mealsToProcess, i, allResults, batchResults,
                 processedCount, response, calls, matchInput, matchOutput>>

\* index.js:583-588, both files are requested; loadEmbeddings rethrows
\* its failure and the caches are assigned only when both calls return
LoadData ==
  /\ pc = "load"
  /\ ~(cuisineMap.loaded /\ imageEmbeddings.loaded)
  /\ calls' = [calls EXCEPT !.s3 = @ + 1]
  /\ \E cuisinesOk \in BOOLEAN, catalogOk \in BOOLEAN, catalog \in CatalogFiles :
       IF ~catalogOk
       THEN /\ response' = ErrorResponse(CatalogError)
            /\ pc' = "done"
            /\ UNCHANGED <<cuisineMap, imageEmbeddings>>
       ELSE /\ cuisineMap' = [loaded |-> TRUE, entries |-> loadCuisineMap(cuisinesOk)]
            /\ imageEmbeddings' = [loaded |-> TRUE, images |-> catalog]
            /\ pc' = "resolve"
            /\ UNCHANGED response
  /\ UNCHANGED <<mappingStore, invocations, event, mode, mealsToProcess, i,
                 allResults, batchResults, processedCount, matchInput, matchOutput>>

\* index.js:590-625
ResolveMeals ==
  /\ pc = "resolve"
  /\ LET mealNames == RequestMealNames(event)
         newMode == IF Len(mealNames) > 0 THEN "request" ELSE "fetch"
     IN  /\ mode' = newMode
         /\ \E storeOk \in IF newMode = "fetch" THEN BOOLEAN ELSE {TRUE} :
              LET meals == IF newMode = "request"
                           THEN processRequestMeals(mealNames)
                           ELSE fetchUnmappedMeals(MealPlans, mappingStore)
              IN  /\ calls' = IF newMode = "fetch"
                              THEN [calls EXCEPT !.getDocs = @ + 1]
                              ELSE calls
                  /\ IF ~storeOk
                     THEN /\ response' = [statusCode |-> 500, error |-> StoreReadError,
                                          mode |-> newMode, processedCount |-> 0]
                          /\ pc' = "done"
                          /\ UNCHANGED mealsToProcess
                     ELSE IF meals = <<>>
                     THEN /\ response' =
                               [statusCode |-> 200,
                                message |-> IF newMode = "request"
                                            THEN "No meal names provided in request"
                                            ELSE "No unmapped meals found",
                                mode |-> newMode,
                                processedCount |-> 0]
                          /\ pc' = "done"
                          /\ mealsToProcess' = meals
                     ELSE /\ pc' = "loop"
                          /\ mealsToProcess' = meals
                          /\ UNCHANGED response
  /\ UNCHANGED <<cuisineMap, imageEmbeddings, mappingStore, invocations, event, i,
                 allResults, batchResults, processedCount, matchInput, matchOutput>>

Min(a, b) == IF a <= b THEN a ELSE b

\* the slice of index.js:639 starting one meal early: the last meal of
\* the batch before is taken again
BatchFromLastMeal ==
  SubSeq(mealsToProcess, IF i = 0 THEN 1 ELSE i,
         Min(i + MAX_MEALS_PER_BATCH, Len(mealsToProcess)))

\* the slice of the batch that starts at i (index.js:639)
Batch == SubSeq(mealsToProcess, i + 1, Min(i + MAX_MEALS_PER_BATCH, Len(mealsToProcess)))

\* StartBatch without the break of index.js:634-637
StartBatchIgnoringTime ==
  /\ pc = "loop"
  /\ i < Len(mealsToProcess)
  /\ \E remainingTime \in RemainingTimes :
       calls' = [calls EXCEPT !.remainingTime = remainingTime]
  /\ pc' = "batch"
  /\ batchResults' = <<>>
  /\ UNCHANGED <<cuisineMap, imageEmbeddings, mappingStore, invocations, event,
                 mode, mealsToProcess, i, allResults, processedCount, response,
                 matchInput, matchOutput>>

\* index.js:631-646: the loop condition holds, the remaining time is
\* read, and either the loop is left or processMealBatch is entered
StartBatch ==
  /\ pc = "loop"
  /\ i < Len(mealsToProcess)
  /\ \E remainingTime \in RemainingTimes :
       /\ calls' = [calls EXCEPT !.remainingTime = remainingTime]
       /\ IF remainingTime < TimeoutBufferMs
          THEN pc' = "respond"
          ELSE pc' = "batch"
  /\ batchResults' = <<>>
  /\ UNCHANGED <<cuisineMap, imageEmbeddings, mappingStore, invocations, event,
                 mode, mealsToProcess, i, allResults, processedCount, response,
                 matchInput, matchOutput>>

\* index.js:631: the loop condition fails
EndLoop ==
  /\ pc = "loop"
  /\ i >= Len(mealsToProcess)
  /\ pc' = "respond"
  /\ UNCHANGED <<cuisineMap, imageEmbeddings, mappingStore, invocations, event,
                 mode, mealsToProcess, i, allResults, batchResults,
                 processedCount, response, calls, matchInput, matchOutput>>

\* ProcessMeal without the try/catch of index.js:448 and 494: a failed
\* embedding request reaches the handler's catch block
ProcessMealRethrowing ==
  /\ pc = "batch"
  /\ Len(batchResults) < Len(Batch)
  /\ LET meal == Batch[Len(batchResults) + 1]
     IN  \E embeddingOk \in BOOLEAN :
           /\ calls' = [calls EXCEPT
                          !.embedding = Append(@, [mealId |-> meal.id, ok |-> embeddingOk])]
           /\ IF embeddingOk
              THEN /\ batchResults' =
                        Append(batchResults, MealResult(meal, TRUE, imageEmbeddings.images))
                   /\ UNCHANGED <<pc, response>>
              ELSE /\ response' = ErrorResponse(EmbeddingError)
                   /\ pc' = "done"
                   /\ UNCHANGED batchResults
  /\ UNCHANGED <<cuisineMap, imageEmbeddings, mappingStore, invocations, event,
                 mode, mealsToProcess, i, allResults, processedCount,
                 matchInput, matchOutput>>

\* one iteration of processMealBatch (index.js:447-511). the embedding
\* is requested once, and whatever is thrown becomes an error result
ProcessMeal ==
  /\ pc = "batch"
  /\ Len(batchResults) < Len(Batch)
  /\ LET meal == Batch[Len(batchResults) + 1]
     IN  \E embeddingOk \in BOOLEAN :
           /\ batchResults' =
                Append(batchResults, MealResult(meal, embeddingOk, imageEmbeddings.images))
           /\ calls' = [calls EXCEPT
                          !.embedding = Append(@, [mealId |-> meal.id, ok |-> embeddingOk])]
  /\ UNCHANGED <<cuisineMap, imageEmbeddings, mappingStore, invocations, pc, event,
                 mode, mealsToProcess, i, allResults, processedCount, response,
                 matchInput, matchOutput>>

\* CountProcessed with the increment of index.js:648 left out
CountProcessedNothing(count, batch) == count

\* index.js:648: the batch is counted when processMealBatch has returned,
\* before updateFirestoreMappings is called
CountProcessed(count, batch) == count + Len(batch)

\* FinishWrite with the rejection of addDoc swallowed: the loop goes on
FinishWriteIgnoringFailure(written, total) ==
  /\ i' = i + MAX_MEALS_PER_BATCH
  /\ pc' = "loop"
  /\ UNCHANGED response

\* the end of updateFirestoreMappings as the handler sees it: a rejected
\* addDoc is rethrown (index.js:559-562) and caught by the handler's
\* catch block (index.js:686-698); otherwise the loop advances
\* (index.js:631)
FinishWrite(written, total) ==
  IF written < total
  THEN /\ response' = [statusCode |-> 500, error |-> StoreWriteError,
                       mode |-> mode, processedCount |-> processedCount']
       /\ pc' = "done"
       /\ UNCHANGED i
  ELSE /\ i' = i + MAX_MEALS_PER_BATCH
       /\ pc' = "loop"
       /\ UNCHANGED response

\* PersistBatch without the updateFirestoreMappings call of index.js:651
PersistBatchSkippingWrite ==
  /\ pc = "batch"
  /\ Len(batchResults) = Len(Batch)
  /\ allResults' = allResults \o batchResults
  /\ processedCount' = processedCount + Len(Batch)
  /\ i' = i + MAX_MEALS_PER_BATCH
  /\ pc' = "loop"
  /\ UNCHANGED <<cuisineMap, imageEmbeddings, mappingStore, invocations, event,
                 mode, mealsToProcess, batchResults, response, calls,
                 matchInput, matchOutput>>

\* index.js:647-652: processMealBatch has returned; the results are
\* collected and counted, then updateFirestoreMappings adds one document
\* per mapped result, and the first addDoc that fails ends the handler
PersistBatch ==
  /\ pc = "batch"
  /\ Len(batchResults) = Len(Batch)
  /\ allResults' = allResults \o batchResults
  /\ processedCount' = CountProcessed(processedCount, Batch)
  /\ LET docs == MappingDocs(batchResults)
     IN  \E written \in 0..Len(docs) :
           /\ mappingStore' = mappingStore \o SubSeq(docs, 1, written)
           /\ calls' = [calls EXCEPT !.addDoc = @ + Min(written + 1, Len(docs))]
           /\ FinishWrite(written, Len(docs))
  /\ UNCHANGED <<cuisineMap, imageEmbeddings, invocations, event, mode,
                 mealsToProcess, batchResults, matchInput, matchOutput>>

\* mealImageMappings of a request-mode response (index.js:671-679)
MealImageMappings(results) ==
  LET mapped == Mapped(results)
      last(n) == CHOOSE k \in 1..Len(mapped) :
                   /\ mapped[k].mealName = n
                   /\ \A l \in 1..Len(mapped) : mapped[l].mealName = n => l <= k
  IN  [n \in {mapped[k].mealName : k \in 1..Len(mapped)} |-> mapped[last(n)].imageUrl]

\* Respond with the length of the resolved list reported in place of
\* the handler's counter
RespondCountingResolved ==
  /\ pc = "respond"
  /\ response' =
       LET base == [statusCode |-> 200,
                    message |-> "Meal-image mapping completed",
                    mode |-> mode,
                    processedCount |-> Len(mealsToProcess),
                    successfulMappings |-> Len(Mapped(allResults)),
                    results |-> allResults]
       IN  IF mode = "request"
           THEN [f \in DOMAIN base \cup {"mealImageMappings"} |->
                   IF f = "mealImageMappings" THEN MealImageMappings(allResults)
                   ELSE base[f]]
           ELSE base
  /\ pc' = "done"
  /\ UNCHANGED <<cuisineMap, imageEmbeddings, mappingStore, invocations, event,
                 mode, mealsToProcess, i, allResults, batchResults,
                 processedCount, calls, matchInput, matchOutput>>

\* index.js:654-684
Respond ==
  /\ pc = "respond"
  /\ response' =
       LET base == [statusCode |-> 200,
                    message |-> "Meal-image mapping completed",
                    mode |-> mode,
                    processedCount |-> processedCount,
                    successfulMappings |-> Len(Mapped(allResults)),
                    results |-> allResults]
       IN  IF mode = "request"
           THEN [f \in DOMAIN base \cup {"mealImageMappings"} |->
                   IF f = "mealImageMappings" THEN MealImageMappings(allResults)
                   ELSE base[f]]
           ELSE base
  /\ pc' = "done"
  /\ UNCHANGED <<cuisineMap, imageEmbeddings, mappingStore, invocations, event,
                 mode, mealsToProcess, i, allResults, batchResults,
                 processedCount, calls, matchInput, matchOutput>>

\* a remaining-time check between two meals of a batch, which the
\* handler does not have: the batch is abandoned when the time is short
CheckTimeInBatch ==
  /\ pc = "batch"
  /\ Len(batchResults) < Len(Batch)
  /\ \E remainingTime \in RemainingTimes :
       /\ calls' = [calls EXCEPT !.remainingTime = remainingTime]
       /\ IF remainingTime < TimeoutBufferMs
          THEN pc' = "respond"
          ELSE pc' = "batch"
  /\ UNCHANGED <<cuisineMap, imageEmbeddings, mappingStore, invocations, event,
                 mode, mealsToProcess, i, allResults, batchResults,
                 processedCount, response, matchInput, matchOutput>>

\* Next with that check among the steps
NextWithCheckInBatch ==
  \/ Invoke
  \/ LoadCached
  \/ LoadData
  \/ ResolveMeals
  \/ StartBatch
  \/ EndLoop
  \/ ProcessMeal
  \/ CheckTimeInBatch
  \/ PersistBatch
  \/ Respond

Next ==
  \/ Invoke
  \/ LoadCached
  \/ LoadData
  \/ ResolveMeals
  \/ StartBatch
  \/ EndLoop
  \/ ProcessMeal
  \/ PersistBatch
  \/ Respond

Spec == Init /\ [][Next]_vars

\* every awaited call of the running handler returns or fails, so the
\* handler takes its next step; the platform need not invoke it again
HandlerStep ==
  \/ LoadCached
  \/ LoadData
  \/ ResolveMeals
  \/ StartBatch
  \/ EndLoop
  \/ ProcessMeal
  \/ PersistBatch
  \/ Respond

SpecLive == Init /\ [][Next]_vars /\ WF_vars(HandlerStep)

(***************************************************************************)
(* Direct calls of findBestImageMatch: every meal name, embedding and      *)
(* vegetarian flag against every catalog of up to MaxCatalogLen distinct   *)
(* images in every order, with the name index loaded.  Such a process is   *)
(* at position "call" and never runs the handler.                          *)
(***************************************************************************)
MaxCatalogLen == 3

Catalogs ==
  {c \in UNION {[1..n -> ImagePool] : n \in 0..MaxCatalogLen} :
     \A a, b \in 1..Len(c) : a # b => c[a] # c[b]}

InitMatch ==
  /\ cuisineMap = [loaded |-> TRUE, entries |-> loadCuisineMap(TRUE)]
  /\ imageEmbeddings = [loaded |-> FALSE, images |-> <<>>]
  /\ mappingStore = <<>>
  /\ invocations = 0
  /\ pc = "call"
  /\ event = [source |-> "schedule"]
  /\ mode = "fetch"
  /\ mealsToProcess = <<>>
  /\ i = 0
  /\ allResults = <<>>
  /\ batchResults = <<>>
  /\ processedCount = 0
  /\ response = NoResponse
  /\ calls = NoCalls
  /\ \E mealName \in MealNamePool, mealEmbedding \in VectorPool,
        mealIsVegetarian \in BOOLEAN, images \in Catalogs :
       matchInput = [given |-> TRUE,
                     mealName |-> mealName,
                     mealEmbedding |-> mealEmbedding,
                     mealIsVegetarian |-> mealIsVegetarian,
                     images |-> images]
  /\ matchOutput = [returned |-> FALSE]

\* the call; scan holds the locals at the end of the loop, result what
\* the function returns or throws
CallFindBestImageMatch ==
  /\ pc = "call"
  /\ matchInput.given
  /\ ~matchOutput.returned
  /\ matchOutput' =
       [returned |-> TRUE,
        scan |-> ScanImages(Len(matchInput.images), matchInput.mealName,
                            matchInput.mealEmbedding, matchInput.mealIsVegetarian,
                            matchInput.images),
        result |-> findBestImageMatch(matchInput.mealName, matchInput.mealEmbedding,
                                      matchInput.mealIsVegetarian, matchInput.images)]
  /\ UNCHANGED <<cuisineMap, imageEmbeddings, mappingStore, handlerVars, matchInput>>

NextMatch == CallFindBestImageMatch

SpecMatch == InitMatch /\ [][NextMatch]_vars

\* the handler's process and the direct callers side by side
InitAll == Init \/ InitMatch

NextAll ==
  \/ Next
  \/ NextMatch

SpecAll == InitAll /\ [][NextAll]_vars

(***************************************************************************)
(* Vocabulary of the properties                                            *)
(***************************************************************************)
\* positions of the images of a catalog that pass the vegetarian filter
Survivors(mealIsVegetarian, images) ==
  {k \in 1..Len(images) : ~(mealIsVegetarian /\ ~ResolveImageVegetarian(images[k]))}

CosineOf(mealEmbedding, image) ==
  calculateCosineSimilarity(mealEmbedding, image.embedding).value

TextOf(mealName, image) == calculateTextSimilarity(mealName, image.name)

\* the direct call was made with vectors of one length, so that every
\* image of the catalog has a cosine score
MatchScored ==
  /\ matchOutput.returned
  /\ \A k \in 1..Len(matchInput.images) :
       Len(matchInput.images[k].embedding) = Len(matchInput.mealEmbedding)
  /\ ~matchOutput.scan.threw

MatchSurvivors == Survivors(matchInput.mealIsVegetarian, matchInput.images)

MatchCosine(k) == CosineOf(matchInput.mealEmbedding, matchInput.images[k])

MatchText(k) == TextOf(matchInput.mealName, matchInput.images[k])

CosineQualifiers == {k \in MatchSurvivors : MatchCosine(k) >= COSINE_SIMILARITY_THRESHOLD}

TextQualifiers == {k \in MatchSurvivors : MatchText(k) >= TEXT_SIMILARITY_THRESHOLD}

\* the returned object repeats the locals of the loop
ResultRepeatsScan ==
  ~matchOutput.result.threw =>
    /\ matchOutput.result.bestMatch = matchOutput.scan.bestMatch
    /\ matchOutput.result.method = matchOutput.scan.method
    /\ matchOutput.result.reason = matchOutput.scan.reason
    /\ matchOutput.result.cosineScore = matchOutput.scan.bestCosineScore
    /\ matchOutput.result.textScore = matchOutput.scan.bestTextScore

\* the results the running invocation has produced, in meal order:
\* result k belongs to mealsToProcess[k]
ResultsSoFar == IF pc = "batch" THEN allResults \o batchResults ELSE allResults

\* the last n documents of the mapping collection
LastDocs(n) == SubSeq(mappingStore, Len(mappingStore) - n + 1, Len(mappingStore))

\* the handler returned because the catalog could not be loaded
CatalogFailed ==
  /\ pc = "done"
  /\ response.statusCode = 500
  /\ response.error = CatalogError

(***************************************************************************)
(* Properties                                                              *)
(***************************************************************************)

\* C1: vegetarian fail-safe.  A call of findBestImageMatch for a
\* vegetarian meal that returns, returns an image of the catalog whose
\* resolved vegetarian flag is true, whatever the scores.  No result of
\* a vegetarian meal in the handler carries an image whose resolved flag
\* is false: the image of every non-error result is a catalog image that
\* passed the filter for that meal, and the flag reported for it is its
\* resolved flag.  Hence no document of the mapping collection,
\* whichever invocation wrote it, has mealIsVegetarian true and
\* imageIsVegetarian false.
VegetarianFailSafe ==
  /\ (matchOutput.returned /\ ~matchOutput.result.threw) =>
       /\ matchOutput.result.bestMatch \in 1..Len(matchInput.images)
       /\ matchInput.mealIsVegetarian =>
            ResolveImageVegetarian(matchInput.images[matchOutput.result.bestMatch])
  /\ \A k \in 1..Len(mappingStore) :
       mappingStore[k].mealIsVegetarian => mappingStore[k].imageIsVegetarian
  /\ \A k \in 1..Len(ResultsSoFar) :
       LET r == ResultsSoFar[k]
           images == imageEmbeddings.images
       IN  r.method # "error" =>
             /\ r.mealIsVegetarian = mealsToProcess[k].isVegetarian
             /\ r.mealIsVegetarian => r.imageIsVegetarian
             /\ \E p \in Survivors(r.mealIsVegetarian, images) :
                  /\ images[p].name = r.imageName
                  /\ ResolveImageVegetarian(images[p]) = r.imageIsVegetarian

\* C1 witness: a document of a vegetarian meal was written although the
\* catalog holds a non-vegetarian image that scores above the cosine
\* threshold for that meal and above the score of the image chosen.
VegetarianMealKeptFromBetterImage ==
  \E k \in 1..Len(mappingStore) :
    /\ mappingStore[k].mealIsVegetarian
    /\ mappingStore[k].imageIsVegetarian
    /\ \E p \in 1..Len(imageEmbeddings.images) :
         LET image == imageEmbeddings.images[p]
             score == CosineOf(EmbeddingOf(mappingStore[k].mealName), image)
         IN  /\ ~ResolveImageVegetarian(image)
             /\ score >= COSINE_SIMILARITY_THRESHOLD
             /\ score > mappingStore[k].cosineScore

\* C2: when no image of the catalog passes the vegetarian filter for a
\* meal whose embedding was obtained, the meal's result is a no-match:
\* no image, method none, reason 'No suitable match found'.
NoSurvivorIsNoMatch ==
  \A k \in 1..Len(ResultsSoFar) :
    LET r == ResultsSoFar[k]
    IN  ( /\ calls.embedding[k].ok
          /\ Survivors(mealsToProcess[k].isVegetarian, imageEmbeddings.images) = {} )
        => /\ r.method = "none"
           /\ r.imageUrl = Null
           /\ r.reason = NoMatchReason

\* C3: after a scan in which every comparison was between vectors of one
\* length, the method is cosine only if the chosen image passed the
\* filter and has a cosine score >= the cosine threshold; it is text only
\* if no image that passed the filter has a cosine score >= the cosine
\* threshold and the chosen image has a text score >= the text
\* threshold; otherwise it is none and no image is chosen.  A returned
\* object repeats the method and the image of the scan.
MethodMeansThreshold ==
  MatchScored =>
    LET scan == matchOutput.scan
    IN  /\ scan.method \in {"cosine", "text", "none"}
        /\ scan.method = "cosine" =>
             /\ scan.bestMatch \in MatchSurvivors
             /\ MatchCosine(scan.bestMatch) >= COSINE_SIMILARITY_THRESHOLD
        /\ scan.method = "text" =>
             /\ CosineQualifiers = {}
             /\ scan.bestMatch \in MatchSurvivors
             /\ MatchText(scan.bestMatch) >= TEXT_SIMILARITY_THRESHOLD
        /\ scan.method = "none" <=> scan.bestMatch = 0
        /\ ResultRepeatsScan

\* C3 witness: a call returned a text match while an image that the
\* filter removed has a cosine score >= the threshold.
TextMatchBesideFilteredCosine ==
  /\ MatchScored
  /\ ~matchOutput.result.threw
  /\ matchOutput.result.method = "text"
  /\ \E k \in 1..Len(matchInput.images) :
       /\ k \notin MatchSurvivors
       /\ MatchCosine(k) >= COSINE_SIMILARITY_THRESHOLD

\* C4: if an image that passed the filter has a cosine score >= the
\* cosine threshold, the method is cosine and the chosen image has the
\* highest cosine score of the images that passed the filter, whatever
\* the text scores and the order of the catalog.
CosineDominates ==
  (MatchScored /\ CosineQualifiers # {}) =>
    LET scan == matchOutput.scan
    IN  /\ scan.method = "cosine"
        /\ scan.bestMatch \in CosineQualifiers
        /\ \A k \in MatchSurvivors : MatchCosine(k) <= MatchCosine(scan.bestMatch)
        /\ scan.bestCosineScore = MatchCosine(scan.bestMatch)
        /\ ResultRepeatsScan

\* C4 witness: the returned cosine match stands behind an image that
\* qualified by text only and before an image with a weaker qualifying
\* cosine score.
CosineBetweenTextAndWeakerCosine ==
  /\ MatchScored
  /\ ~matchOutput.result.threw
  /\ matchOutput.result.method = "cosine"
  /\ \E p \in MatchSurvivors :
       /\ p < matchOutput.result.bestMatch
       /\ MatchCosine(p) < COSINE_SIMILARITY_THRESHOLD
       /\ MatchText(p) >= TEXT_SIMILARITY_THRESHOLD
  /\ \E q \in CosineQualifiers :
       /\ q > matchOutput.result.bestMatch
       /\ MatchCosine(q) < MatchCosine(matchOutput.result.bestMatch)

\* the catalog is a non-vegetarian image with a cosine score above the
\* threshold and, at position b, a vegetarian image with a cosine score
\* below the threshold and a text score above the text threshold
TwoImageScenario(b) ==
  /\ matchInput.mealIsVegetarian
  /\ Len(matchInput.images) = 2
  /\ b \in {1, 2}
  /\ ~ResolveImageVegetarian(matchInput.images[3 - b])
  /\ MatchCosine(3 - b) > COSINE_SIMILARITY_THRESHOLD
  /\ ResolveImageVegetarian(matchInput.images[b])
  /\ MatchCosine(b) < COSINE_SIMILARITY_THRESHOLD
  /\ MatchText(b) > TEXT_SIMILARITY_THRESHOLD

\* C5: when no image that passed the filter qualifies by cosine and one
\* qualifies by text, the method is text and the chosen image has the
\* highest text score of the images that passed the filter; for a
\* vegetarian meal and the two-image catalog of TwoImageScenario the
\* vegetarian image is chosen by text.
TextFallback ==
  MatchScored =>
    LET scan == matchOutput.scan
    IN  /\ (CosineQualifiers = {} /\ TextQualifiers # {}) =>
             /\ scan.method = "text"
             /\ scan.bestMatch \in TextQualifiers
             /\ \A k \in MatchSurvivors : MatchText(k) <= MatchText(scan.bestMatch)
             /\ scan.bestTextScore = MatchText(scan.bestMatch)
        /\ \A b \in {1, 2} :
             TwoImageScenario(b) => scan.method = "text" /\ scan.bestMatch = b
        /\ ResultRepeatsScan

\* C5 witness: the call on the two-image catalog returned the vegetarian
\* image by text.
VegetarianImageChosenByText ==
  /\ MatchScored
  /\ ~matchOutput.result.threw
  /\ \E b \in {1, 2} :
       /\ TwoImageScenario(b)
       /\ matchOutput.result.bestMatch = b
       /\ matchOutput.result.method = "text"

\* C6: an invocation with the body {"mealNames": []}, once the catalog
\* is loaded, reads no meal from the store, requests no embedding,
\* writes no document, and returns status 200 with processedCount 0 and
\* a message other than 'No unmapped meals found'.
EmptyMealNamesProcessNothing ==
  ( /\ "body" \in DOMAIN event
    /\ event.body = EmptyMealNamesBody
    /\ pc \notin {"idle", "load", "resolve"}
    /\ ~CatalogFailed )
  => /\ pc = "done"
     /\ calls.getDocs = 0
     /\ calls.embedding = <<>>
     /\ calls.addDoc = 0
     /\ response.statusCode = 200
     /\ response.processedCount = 0
     /\ response.message # "No unmapped meals found"

\* the body parses as JSON and its mealNames is a non-empty array
IsRequestEvent ==
  /\ "body" \in DOMAIN event
  /\ event.body.json
  /\ event.body.value.type = "object"
  /\ "mealNames" \in DOMAIN event.body.value.fields
  /\ event.body.value.fields.mealNames.type = "array"
  /\ Len(event.body.value.fields.mealNames.items) > 0

\* there is no body, or it is no JSON
IsUnparsedEvent == "body" \notin DOMAIN event \/ ~event.body.json

TimedOut ==
  /\ pc \in {"respond", "done"}
  /\ calls.remainingTime >= 0
  /\ calls.remainingTime < TimeoutBufferMs

\* the documents of all mapped results are the last ones written
AllResultsPersisted ==
  /\ Len(mappingStore) >= Len(Mapped(allResults))
  /\ LastDocs(Len(Mapped(allResults))) = MappingDocs(allResults)

\* C8: a batch is entered only after a remaining time of at least the
\* buffer was read.  When the remaining time read before batch k+1 is
\* below the buffer, no further meal is processed: processedCount is
\* min(N, k*B), every counted meal has its result, no embedding was
\* requested for another meal, the mapped results of batches 1..k are in
\* the mapping collection, and the response is a 200 with that count.
TimeoutStop ==
  /\ pc = "batch" => calls.remainingTime >= TimeoutBufferMs
  /\ TimedOut =>
       LET k == i \div MAX_MEALS_PER_BATCH
       IN  /\ i = k * MAX_MEALS_PER_BATCH
           /\ i < Len(mealsToProcess)
           /\ processedCount = Min(Len(mealsToProcess), k * MAX_MEALS_PER_BATCH)
           /\ Len(allResults) = processedCount
           /\ Len(calls.embedding) = processedCount
           /\ AllResultsPersisted
           /\ pc = "done" =>
                /\ response.statusCode = 200
                /\ response.processedCount = processedCount

\* C8 witness: the handler returned after the time check stopped it
\* before the second batch, with a mapped result of the first batch.
StoppedBeforeSecondBatch ==
  /\ pc = "done"
  /\ TimedOut
  /\ i = MAX_MEALS_PER_BATCH
  /\ response.processedCount = MAX_MEALS_PER_BATCH
  /\ Mapped(allResults) # <<>>

EmbeddingFailureIsolated ==
  /\ Len(calls.embedding) = Len(ResultsSoFar)
  /\ \A k \in 1..Len(calls.embedding) :
       /\ calls.embedding[k].mealId = mealsToProcess[k].id
       /\ \A l \in 1..Len(calls.embedding) :
            calls.embedding[l].mealId = calls.embedding[k].mealId => l = k
       /\ ~calls.embedding[k].ok =>
            /\ ResultsSoFar[k].mealName = mealsToProcess[k].name
            /\ ResultsSoFar[k].method = "error"
            /\ ResultsSoFar[k].error = EmbeddingError
            /\ ResultsSoFar[k].imageUrl = Null
  /\ response.statusCode = 500 => response.error # EmbeddingError
  /\ (pc = "done" /\ response.statusCode = 200 /\ ~TimedOut) =>
       /\ response.processedCount = Len(mealsToProcess)
       /\ Len(ResultsSoFar) = Len(mealsToProcess)

\* C10 witness: the embedding request of the first meal failed, the
\* second meal of the same batch was mapped, the next batch was
\* processed, and the handler returned 200.
FailureThenMappingThenNextBatch ==
  /\ pc = "done"
  /\ response.statusCode = 200
  /\ Len(allResults) > MAX_MEALS_PER_BATCH
  /\ ~calls.embedding[1].ok
  /\ allResults[1].method = "error"
  /\ IsMapped(allResults[2])
  /\ response.processedCount = Len(mealsToProcess)

(***************************************************************************)
(* Failures of the catalog, the name index and the stores                  *)
(***************************************************************************)
\* the invocation requested the two files and the cuisines file could
\* not be fetched: the name index it cached is the empty Map
CuisineMapLoadFailed ==
  /\ calls.s3 > 0
  /\ cuisineMap.loaded
  /\ cuisineMap.entries = <<>>

\* the invocation requested the two files and has left the loading step
LoadAttempted == calls.s3 > 0 /\ pc # "load"

\* C11: an invocation in which the image catalog or the cuisine map
\* could not be loaded ends at once with a 500 response and has processed
\* nothing: the meal store was not read, no embedding was requested and
\* no document was written.
LoadFailureIsFatal ==
  (LoadAttempted /\ (CatalogFailed \/ CuisineMapLoadFailed)) =>
    /\ pc = "done"
    /\ response.statusCode = 500
    /\ calls.getDocs = 0
    /\ calls.embedding = <<>>
    /\ calls.addDoc = 0

\* addDoc calls made and documents added by a step of the handler
AddDocCalls == calls'.addDoc - calls.addDoc

DocsAdded == Len(mappingStore') - Len(mappingStore)

\* C12 as stated: a failed write to the mapping collection does not end
\* the invocation; only a failure of the catalog or of reading the store
\* produces the 500 response.
OnlyLoadFailuresAreFatal ==
  response.statusCode = 500 => response.error \in {CatalogError, StoreReadError}

\* C12: a step in which an addDoc call fails ends the invocation: the
\* handler returns 500 with the write error, the failed call is the last
\* one (no retry, no later document), the documents written before it
\* stay and the loop does not advance.
WriteFailureIsFatal ==
  [][AddDocCalls > DocsAdded =>
       /\ pc' = "done"
       /\ response'.statusCode = 500
       /\ response'.error = StoreWriteError
       /\ AddDocCalls = DocsAdded + 1
       /\ SubSeq(mappingStore', 1, Len(mappingStore)) = mappingStore
       /\ i' = i]_vars

\* C12 witness: the second addDoc of the first batch failed after the
\* first document was written, and a further batch was left unprocessed.
WriteFailedWithBatchRemaining ==
  /\ pc = "done"
  /\ response.statusCode = 500
  /\ response.error = StoreWriteError
  /\ calls.addDoc = 2
  /\ Len(mappingStore) >= 1
  /\ i = 0
  /\ Len(mealsToProcess) > MAX_MEALS_PER_BATCH

\* C13: the catalog and the name index are loaded at most once in a
\* process: once they are cached no step changes either of them or
\* requests their files again, an invocation requests the files at most
\* once, and the caches are filled only by a step that requests them.
LoadedAtMostOnce ==
  [][/\ (cuisineMap.loaded /\ imageEmbeddings.loaded) =>
          /\ imageEmbeddings' = imageEmbeddings
          /\ cuisineMap' = cuisineMap
          /\ calls'.s3 <= calls.s3
     /\ calls'.s3 <= 1
     /\ (imageEmbeddings' # imageEmbeddings \/ cuisineMap' # cuisineMap) =>
          calls'.s3 = calls.s3 + 1]_vars

\* C13 witness: a later invocation has passed the loading step with the
\* catalog cached by an earlier one and without requesting any file.
SecondInvocationUsedCache ==
  /\ invocations = 2
  /\ pc = "batch"
  /\ calls.s3 = 0
  /\ imageEmbeddings.loaded
  /\ Len(imageEmbeddings.images) = 3
  /\ cuisineMap.entries # <<>>

(***************************************************************************)
(* Re-running the handler                                                  *)
(***************************************************************************)
\* the meal names that have a document in the mapping collection
MappedNames == {mappingStore[k].mealName : k \in 1..Len(mappingStore)}

\* every meal of the meal store, in the order the store lists them
StoredMeals == fetchUnmappedMeals(MealPlans, <<>>)

NotYetMapped(meal) == meal.name \notin MappedNames

\* names and ids of the meals the invocation resolved
ResolvedNames == {mealsToProcess[k].name : k \in 1..Len(mealsToProcess)}

ResolvedIds == {mealsToProcess[k].id : k \in 1..Len(mealsToProcess)}

\* C14: a fetch-mode invocation that reads the store resolves exactly
\* the stored meals whose names have no document in the mapping
\* collection at that moment, which is still the collection the
\* invocation started with; the resolved list then stays as it is, and
\* embeddings are requested and documents added only for its meals.  So
\* a meal mapped by an earlier run is neither embedded nor mapped again.
RerunSkipsMappedNames ==
  [][/\ (pc = "resolve" /\ mode' = "fetch" /\ response'.statusCode # 500) =>
          mealsToProcess' = SelectSeq(StoredMeals, NotYetMapped)
     /\ pc \in {"load", "resolve"} => mappingStore' = mappingStore
     /\ pc \in {"loop", "batch", "respond"} => mealsToProcess' = mealsToProcess
     /\ \A k \in Len(calls.embedding) + 1..Len(calls'.embedding) :
          calls'.embedding[k].mealId \in ResolvedIds
     /\ \A k \in Len(mappingStore) + 1..Len(mappingStore') :
          mappingStore'[k].mealName \in ResolvedNames]_vars

\* C14 witness: an earlier run mapped the two meals of its first batch
\* and no other; the re-invocation, in fetch mode, resolved exactly the
\* one meal that was left and has requested its embedding.
RerunResolvedTheRemainder ==
  /\ invocations = 2
  /\ mode = "fetch"
  /\ pc = "batch"
  /\ Len(StoredMeals) = 3
  /\ Len(mappingStore) = MAX_MEALS_PER_BATCH
  /\ MappedNames = {DalMakhani}
  /\ Len(mealsToProcess) = 1
  /\ mealsToProcess[1] = StoredMeals[3]
  /\ Len(calls.embedding) = 1

\* C15: after each batch every outcome of the invocation has been
\* written exactly once, a mapped one to the mapping collection and one
\* with a null image to a failure collection: the handler has made one
\* addDoc call per outcome, and the mapped outcomes are the documents it
\* added to the mapping collection.
EveryOutcomePersistedOnce ==
  pc \in {"loop", "respond"} =>
    /\ calls.addDoc = Len(allResults)
    /\ AllResultsPersisted

(***************************************************************************)
(* Direct calls of the two detectors of src/vegetarian-detection.js, one   *)
(* per process, at position "classify": every pair of a meal name and a    *)
(* description, and every image record, of the pools below.                *)
(***************************************************************************)
\* meal names: none, the three of the documentation, one with a strong
\* vegetarian keyword, one with both strong kinds in upper case, and
\* three that only the counts decide (more non-vegetarian entries, as
\* many of each, more vegetarian entries), and every strong vegetarian
\* keyword on its own
ClassifierNames ==
  { <<>>, ChickenBiryani, DalMakhani, UnknownDish, PaneerTikka,
    <<"J","a","i","n"," ","T","h","a","l","i">>, <<"V","E","G","A","N"," ","E","G","G"," ","R","O","L","L">>, <<"L","a","m","b"," ","C","h","o","p","s">>, <<"L","a","m","b"," ","C","u","r","r","y">>,
    <<"R","o","a","s","t"," ","D","u","c","k"," ","R","i","c","e">> }
    \cup {STRONG_VEGETARIAN_INDICATORS[k] :
            k \in DOMAIN STRONG_VEGETARIAN_INDICATORS}

ClassifierDescriptions ==
  { <<>>, <<"w","i","t","h"," ","c","h","i","c","k","e","n">>, <<"P","u","r","e"," ","V","e","g">>, <<"l","a","m","b"," ","a","n","d"," ","d","u","c","k">>,
    <<"M","i","x","e","d"," ","v","e","g","e","t","a","b","l","e","s"," ","i","n"," ","c","u","r","r","y"," ","s","a","u","c","e">>, <<"s","p","e","c","i","a","l">> }

\* image records: the two urls of test.js alone and with their names,
\* one without a url, and two that only the counts decide
ClassifierImages ==
  { [imageUrl |-> <<"h","t","t","p","s",":","/","/","e","x","a","m","p","l","e",".","c","o","m","/","c","h","i","c","k","e","n","-","b","i","r","y","a","n","i",".","j","p","g">>,
     imageName |-> <<>>, description |-> <<>>],
    [imageUrl |-> <<"h","t","t","p","s",":","/","/","e","x","a","m","p","l","e",".","c","o","m","/","v","e","g","e","t","a","b","l","e","-","c","u","r","r","y",".","j","p","g">>,
     imageName |-> <<>>, description |-> <<>>],
    [imageUrl |-> <<"h","t","t","p","s",":","/","/","e","x","a","m","p","l","e",".","c","o","m","/","c","h","i","c","k","e","n","-","b","i","r","y","a","n","i",".","j","p","g">>,
     imageName |-> <<"C","h","i","c","k","e","n"," ","B","i","r","y","a","n","i"," ","I","m","a","g","e">>, description |-> <<>>],
    [imageUrl |-> <<"h","t","t","p","s",":","/","/","e","x","a","m","p","l","e",".","c","o","m","/","v","e","g","e","t","a","b","l","e","-","c","u","r","r","y",".","j","p","g">>,
     imageName |-> <<"V","e","g","e","t","a","b","l","e"," ","C","u","r","r","y"," ","I","m","a","g","e">>, description |-> <<>>],
    [imageUrl |-> <<>>,
     imageName |-> <<"C","h","i","c","k","e","n"," ","B","i","r","y","a","n","i"," ","I","m","a","g","e">>, description |-> <<>>],
    [imageUrl |-> <<"i","m","g","/","7",".","j","p","g">>,
     imageName |-> <<"L","a","m","b"," ","C","h","o","p","s">>, description |-> <<"J","a","i","n">>],
    [imageUrl |-> <<"i","m","g","/","8",".","j","p","g">>,
     imageName |-> <<"R","o","a","s","t"," ","D","u","c","k">>, description |-> <<"p","o","r","k">>] }

InitClassify ==
  /\ cuisineMap = [loaded |-> FALSE, entries |-> <<>>]
  /\ imageEmbeddings = [loaded |-> FALSE, images |-> <<>>]
  /\ mappingStore = <<>>
  /\ invocations = 0
  /\ pc = "classify"
  /\ event = [source |-> "schedule"]
  /\ mode = "fetch"
  /\ mealsToProcess = <<>>
  /\ i = 0
  /\ allResults = <<>>
  /\ batchResults = <<>>
  /\ processedCount = 0
  /\ response = NoResponse
  /\ calls = NoCalls
  /\ \/ \E n \in ClassifierNames, d \in ClassifierDescriptions :
          matchInput = [given |-> TRUE, detector |-> "meal",
                        mealName |-> n, description |-> d]
     \/ \E img \in ClassifierImages :
          matchInput = [given |-> TRUE, detector |-> "image",
                        imageUrl |-> img.imageUrl, imageName |-> img.imageName,
                        description |-> img.description]
  /\ matchOutput = [returned |-> FALSE]

CallDetectMealVegetarian ==
  /\ pc = "classify"
  /\ matchInput.detector = "meal"
  /\ ~matchOutput.returned
  /\ matchOutput' =
       [returned |-> TRUE,
        vegetarian |-> detectMealVegetarian(matchInput.mealName, matchInput.description)]
  /\ UNCHANGED <<cuisineMap, imageEmbeddings, mappingStore, handlerVars, matchInput>>

CallDetectImageVegetarian ==
  /\ pc = "classify"
  /\ matchInput.detector = "image"
  /\ ~matchOutput.returned
  /\ matchOutput' =
       [returned |-> TRUE,
        vegetarian |-> detectImageVegetarian(matchInput.imageUrl, matchInput.imageName,
                                             matchInput.description)]
  /\ UNCHANGED <<cuisineMap, imageEmbeddings, mappingStore, handlerVars, matchInput>>

NextClassify ==
  \/ CallDetectMealVegetarian
  \/ CallDetectImageVegetarian

SpecClassify == InitClassify /\ [][NextClassify]_vars

(***************************************************************************)
(* The reference decision of the dietary classifier                        *)
(***************************************************************************)
\* word is a prefix of text or occurs in the rest of it
RECURSIVE OccursIn(_, _)
OccursIn(word, text) ==
  IF Len(word) > Len(text) THEN FALSE
  ELSE IF SubSeq(text, 1, Len(word)) = word THEN TRUE
  ELSE OccursIn(word, Tail(text))

\* how many entries of a keyword list occur in text
MatchingEntries(text, list) ==
  Cardinality({k \in DOMAIN list : OccursIn(list[k], text)})

ReferenceDecision(text) ==
  IF \E w \in Range(STRONG_NON_VEGETARIAN_INDICATORS) : OccursIn(w, text) THEN FALSE
  ELSE IF \E w \in Range(STRONG_VEGETARIAN_INDICATORS) : OccursIn(w, text) THEN TRUE
  ELSE MatchingEntries(text, VEGETARIAN_INDICATORS) >=
         MatchingEntries(text, NON_VEGETARIAN_INDICATORS)

\* a call of detectMealVegetarian has returned
MealClassified ==
  /\ pc = "classify"
  /\ matchInput.detector = "meal"
  /\ matchOutput.returned

\* a call of detectImageVegetarian has returned
ImageClassified ==
  /\ pc = "classify"
  /\ matchInput.detector = "image"
  /\ matchOutput.returned

\* the name and the description joined by one space, in lower case
MealText == toLowerCase(matchInput.mealName \o <<" ">> \o matchInput.description)

\* C16 as stated: for every meal name, the empty one included, and every
\* description, detectMealVegetarian returns the reference decision on
\* the lower-cased text of the two.
MealDecisionIsReference ==
  MealClassified => matchOutput.vegetarian = ReferenceDecision(MealText)

\* C16: for every non-empty meal name and every description,
\* detectMealVegetarian returns the reference decision on the lower-cased
\* text "name description"; for an empty name it returns true whatever
\* the description says.
NamedMealDecisionIsReference ==
  MealClassified =>
    matchOutput.vegetarian =
      IF matchInput.mealName = <<>> THEN TRUE ELSE ReferenceDecision(MealText)

\* C16 witness: a name in upper case with a strong vegetarian and a
\* strong non-vegetarian keyword, and a strongly vegetarian description,
\* was classified non-vegetarian.
BothStrongKindsClassifiedNonVegetarian ==
  /\ MealClassified
  /\ matchInput.mealName = <<"V","E","G","A","N"," ","E","G","G"," ","R","O","L","L">>
  /\ matchInput.description = <<"P","u","r","e"," ","V","e","g">>
  /\ ~matchOutput.vegetarian

\* C17: with an empty description "Chicken Biryani" is classified
\* non-vegetarian and "Dal Makhani" and "Unknown Dish XYZ" vegetarian;
\* an image with the url .../chicken-biryani.jpg is classified
\* non-vegetarian and one with the url .../vegetable-curry.jpg
\* vegetarian, alone or with the image names of test.js.
DocumentedClassifications ==
  /\ (MealClassified /\ matchInput.description = <<>>) =>
       /\ matchInput.mealName = ChickenBiryani => ~matchOutput.vegetarian
       /\ matchInput.mealName = DalMakhani => matchOutput.vegetarian
       /\ matchInput.mealName = UnknownDish => matchOutput.vegetarian
  /\ ImageClassified =>
       /\ matchInput.imageUrl = <<"h","t","t","p","s",":","/","/","e","x","a","m","p","l","e",".","c","o","m","/","c","h","i","c","k","e","n","-","b","i","r","y","a","n","i",".","j","p","g">> =>
            ~matchOutput.vegetarian
       /\ matchInput.imageUrl = <<"h","t","t","p","s",":","/","/","e","x","a","m","p","l","e",".","c","o","m","/","v","e","g","e","t","a","b","l","e","-","c","u","r","r","y",".","j","p","g">> =>
            matchOutput.vegetarian

\* C17 witness: the image given by the url .../chicken-biryani.jpg alone
\* was classified non-vegetarian.
ChickenUrlClassifiedNonVegetarian ==
  /\ ImageClassified
  /\ matchInput.imageUrl = <<"h","t","t","p","s",":","/","/","e","x","a","m","p","l","e",".","c","o","m","/","c","h","i","c","k","e","n","-","b","i","r","y","a","n","i",".","j","p","g">>
  /\ matchInput.imageName = <<>>
  /\ matchInput.description = <<>>
  /\ ~matchOutput.vegetarian

(***************************************************************************)
(* Direct calls of calculateCosineSimilarity, one per process, at          *)
(* position "cosine": every pair of the vectors below.  Every vector has   *)
(* an integer norm, several have norm zero, and most have their negation   *)
(* in the set.                                                             *)
(***************************************************************************)
CosineVectors ==
  VectorPool \cup
  { <<>>, <<0>>, <<-5>>, <<-4, -3>>, <<6, 8>>, <<1, 2, 2>>, <<-1, -2, -2>>,
    <<0, 0, 0>> }

InitCosine ==
  /\ cuisineMap = [loaded |-> FALSE, entries |-> <<>>]
  /\ imageEmbeddings = [loaded |-> FALSE, images |-> <<>>]
  /\ mappingStore = <<>>
  /\ invocations = 0
  /\ pc = "cosine"
  /\ event = [source |-> "schedule"]
  /\ mode = "fetch"
  /\ mealsToProcess = <<>>
  /\ i = 0
  /\ allResults = <<>>
  /\ batchResults = <<>>
  /\ processedCount = 0
  /\ response = NoResponse
  /\ calls = NoCalls
  /\ \E a \in CosineVectors, b \in CosineVectors :
       matchInput = [given |-> TRUE, vectorA |-> a, vectorB |-> b]
  /\ matchOutput = [returned |-> FALSE]

CallCalculateCosineSimilarity ==
  /\ pc = "cosine"
  /\ ~matchOutput.returned
  /\ matchOutput' =
       [returned |-> TRUE,
        result |-> calculateCosineSimilarity(matchInput.vectorA, matchInput.vectorB)]
  /\ UNCHANGED <<cuisineMap, imageEmbeddings, mappingStore, handlerVars, matchInput>>

NextCosine == CallCalculateCosineSimilarity

SpecCosine == InitCosine /\ [][NextCosine]_vars

\* the handler's process and the direct callers of the scorer side by side
InitScoring == Init \/ InitCosine

NextScoring ==
  \/ Next
  \/ NextCosine

SpecScoring == InitScoring /\ [][NextScoring]_vars

(***************************************************************************)
(* Properties of the cosine scorer                                         *)
(***************************************************************************)
\* a call of calculateCosineSimilarity is over
CosineCalled == pc = "cosine" /\ matchOutput.returned

MismatchMessage(a, b) == <<"Vector length mismatch", a, b>>

\* the catalog images a meal is scored against: those the fail-safe keeps
ScoredImages(meal) ==
  {k \in 1..Len(imageEmbeddings.images) :
     meal.isVegetarian => ResolveImageVegetarian(imageEmbeddings.images[k])}

\* of these, the ones whose vector has another length than the meal's
OtherLengthImages(meal) ==
  {k \in ScoredImages(meal) :
     Len(imageEmbeddings.images[k].embedding) # Len(EmbeddingOf(meal.name))}

FirstOf(S) == CHOOSE k \in S : \A l \in S : k <= l

\* C18: calculateCosineSimilarity throws the length-mismatch error
\* exactly when its vectors differ in length.  In the handler a meal whose
\* embedding was obtained and differs in length from the vector of an
\* image it is scored against gets an error result carrying that
\* message; the handler never fails with it; and every other meal whose
\* embedding was obtained has the result its own match gives.
LengthMismatchFailsOneMeal ==
  /\ CosineCalled =>
       IF Len(matchInput.vectorA) # Len(matchInput.vectorB)
       THEN /\ matchOutput.result.threw
            /\ matchOutput.result.message =
                 MismatchMessage(Len(matchInput.vectorA), Len(matchInput.vectorB))
       ELSE ~matchOutput.result.threw
  /\ \A k \in 1..Len(ResultsSoFar) :
       LET meal == mealsToProcess[k]
           result == ResultsSoFar[k]
       IN  calls.embedding[k].ok =>
             IF OtherLengthImages(meal) # {}
             THEN /\ result.mealName = meal.name
                  /\ result.method = "error"
                  /\ result.imageUrl = Null
                  /\ result.error =
                       MismatchMessage(
                         Len(EmbeddingOf(meal.name)),
                         Len(imageEmbeddings.images[FirstOf(OtherLengthImages(meal))].embedding))
             ELSE result = MealResult(meal, TRUE, imageEmbeddings.images)
  /\ response.statusCode = 500 => Head(response.error) # "Vector length mismatch"

\* C18 witness: the first meal of a batch failed on a vector of another
\* length, the second meal of the batch was mapped, and the handler
\* returned 200.
MismatchBesideMappedMeal ==
  /\ pc = "done"
  /\ response.statusCode = 200
  /\ Len(allResults) = 2
  /\ calls.embedding[1].ok
  /\ allResults[1].method = "error"
  /\ allResults[1].error = MismatchMessage(1, 2)
  /\ IsMapped(allResults[2])

ZeroNorm(v) == \A k \in 1..Len(v) : v[k] = 0

Negated(v) == [k \in 1..Len(v) |-> 0 - v[k]]

\* C20 as stated: for every vector v, the similarity of v with itself is
\* 1 and with its negation -1.
SelfSimilarityIsOne ==
  CosineCalled =>
    /\ matchInput.vectorB = matchInput.vectorA =>
         /\ ~matchOutput.result.threw
         /\ matchOutput.result.value = Scale
    /\ matchInput.vectorB = Negated(matchInput.vectorA) =>
         /\ ~matchOutput.result.threw
         /\ matchOutput.result.value = 0 - Scale

\* C20: for every vector v of non-zero norm, the similarity of v with
\* itself is 1 and with its negation -1; for a vector of norm zero both
\* are 0.
NonZeroSelfSimilarityIsOne ==
  (CosineCalled /\ matchInput.vectorB \in {matchInput.vectorA, Negated(matchInput.vectorA)}) =>
    /\ ~matchOutput.result.threw
    /\ matchOutput.result.value =
         IF ZeroNorm(matchInput.vectorA) THEN 0
         ELSE IF matchInput.vectorB = matchInput.vectorA THEN Scale
         ELSE 0 - Scale

\* C20 witness: a vector of norm 3 and its negation gave -1.
NegationGaveMinusOne ==
  /\ CosineCalled
  /\ matchInput.vectorA = <<1, 2, 2>>
  /\ matchInput.vectorB = <<-1, -2, -2>>
  /\ matchOutput.result.value = 0 - Scale

(***************************************************************************)
(* Direct calls of calculateTextSimilarity, one per process, at position   *)
(* "text": every pair of the strings below.                                *)
(***************************************************************************)
\* the strings of test.js, the same words reordered, repeated, in upper
\* case and with other spacing, strings without any word, and words
\* joined by the removal of punctuation
TextPool ==
  { <<>>, <<" "," "," ">>, <<"!","?">>, <<"x">>, <<" ","x"," ">>,
    <<"C","h","i","c","k","e","n"," ","B","i","r","y","a","n","i">>, <<"B","i","r","y","a","n","i"," ","C","h","i","c","k","e","n">>, <<"c","h","i","c","k","e","n"," "," ","B","I","R","Y","A","N","I"," ","c","h","i","c","k","e","n">>,
    <<"B","i","r","y","a","n","i"," ","w","i","t","h"," ","C","h","i","c","k","e","n">>, <<"V","e","g","e","t","a","b","l","e"," ","C","u","r","r","y">>, <<"C","h","i","c","k","e","n","-","B","i","r","y","a","n","i">>,
    <<"C","h","i","c","k","e","n",","," ","B","i","r","y","a","n","i","!">> }

InitText ==
  /\ cuisineMap = [loaded |-> FALSE, entries |-> <<>>]
  /\ imageEmbeddings = [loaded |-> FALSE, images |-> <<>>]
  /\ mappingStore = <<>>
  /\ invocations = 0
  /\ pc = "text"
  /\ event = [source |-> "schedule"]
  /\ mode = "fetch"
  /\ mealsToProcess = <<>>
  /\ i = 0
  /\ allResults = <<>>
  /\ batchResults = <<>>
  /\ processedCount = 0
  /\ response = NoResponse
  /\ calls = NoCalls
  /\ \E a \in TextPool, b \in TextPool :
       matchInput = [given |-> TRUE, text1 |-> a, text2 |-> b]
  /\ matchOutput = [returned |-> FALSE]

CallCalculateTextSimilarity ==
  /\ pc = "text"
  /\ ~matchOutput.returned
  /\ matchOutput' =
       [returned |-> TRUE,
        value |-> calculateTextSimilarity(matchInput.text1, matchInput.text2)]
  /\ UNCHANGED <<cuisineMap, imageEmbeddings, mappingStore, handlerVars, matchInput>>

NextText == CallCalculateTextSimilarity

SpecText == InitText /\ [][NextText]_vars

(***************************************************************************)
(* Properties of the text scorer                                           *)
(***************************************************************************)
TextCalled == pc = "text" /\ matchOutput.returned

\* the set of normalized words of a string
WordSet(text) == Range(normalize(text))

\* the Jaccard index of two word sets, in thousandths, 1 for two equal sets
JaccardOf(set1, set2) ==
  IF set1 = set2 THEN Scale
  ELSE IF set1 = {} \/ set2 = {} THEN 0
  ELSE (Cardinality(set1 \cap set2) * Scale) \div Cardinality(set1 \cup set2)

\* C21: calculateTextSimilarity is a function of the two normalized word
\* sets: 1 when they are equal, two empty sets included, 0 when exactly
\* one is empty, and otherwise the size of the intersection over the size
\* of the union; so a string scores 1 against itself and against any
\* reordering or repetition of its words, and the result lies in [0, 1].
TextSimilarityIsJaccard ==
  TextCalled =>
    /\ matchOutput.value =
         JaccardOf(WordSet(matchInput.text1), WordSet(matchInput.text2))
    /\ matchInput.text1 = matchInput.text2 => matchOutput.value = Scale
    /\ (matchInput.text1 = <<"C","h","i","c","k","e","n"," ","B","i","r","y","a","n","i">> /\ matchInput.text2 = <<"B","i","r","y","a","n","i"," ","C","h","i","c","k","e","n">>) =>
         matchOutput.value = Scale
    /\ (matchInput.text1 = <<>> /\ matchInput.text2 = <<"x">>) => matchOutput.value = 0
    /\ matchOutput.value >= 0
    /\ matchOutput.value <= Scale

\* C21 witness: a string scored 1 against its own words reordered,
\* repeated and in other case and spacing.
ReorderedRepeatedWordsGaveOne ==
  /\ TextCalled
  /\ matchInput.text1 = <<"B","i","r","y","a","n","i"," ","C","h","i","c","k","e","n">>
  /\ matchInput.text2 = <<"c","h","i","c","k","e","n"," "," ","B","I","R","Y","A","N","I"," ","c","h","i","c","k","e","n">>
  /\ matchOutput.value = Scale

(***************************************************************************)
(* The vegetarian flag of a catalog image                                  *)
(***************************************************************************)
\* a call of findBestImageMatch has returned an object
MatchReturned ==
  /\ pc = "call"
  /\ matchOutput.returned
  /\ ~matchOutput.result.threw

\* the fields of an image record the classifier reads, those that are
\* present, joined by spaces and in lower case
ImageText(img) ==
  toLowerCase(Field(img, "url", <<>>) \o <<" ">> \o img.name \o <<" ">> \o
              Field(img, "description", <<>>))

\* the flag of the catalog when it gives one, otherwise the reference
\* decision on the text of the record
ExpectedImageVegetarian(img) ==
  IF "isVegetarian" \in DOMAIN img THEN img.isVegetarian
  ELSE ReferenceDecision(ImageText(img))

\* C22: the flag the vegetarian filter uses for an image is the flag of
\* the catalog when there is one, and otherwise the classifier's verdict
\* on the url, name and description that are present; so the image
\* returned for a vegetarian meal is vegetarian by that flag, also when
\* the record has no url.
FilterUsesVerdictOnPresentFields ==
  (MatchReturned /\ matchInput.mealIsVegetarian) =>
    ExpectedImageVegetarian(matchInput.images[matchOutput.result.bestMatch])

(***************************************************************************)
(* The scores a match reports                                              *)
(***************************************************************************)
Maximum(S) == CHOOSE m \in S : \A n \in S : n <= m

\* the highest cosine score among the images that passed the filter, 0
\* when none reaches it: what a running maximum that starts at 0 holds
BestSurvivorCosine == Maximum({0} \cup {MatchCosine(k) : k \in MatchSurvivors})

\* C23: the cosineScore a match reports is the highest cosine score among
\* the images that passed the vegetarian filter, whatever the method of
\* the match and whether or not a score reached the threshold.
ReportedCosineIsBestSurvivorCosine ==
  (pc = "call" /\ MatchScored /\ ~matchOutput.result.threw) =>
    matchOutput.result.cosineScore = BestSurvivorCosine

(***************************************************************************)
(* The counts of a response                                                *)
(***************************************************************************)
\* the handler has returned a 200 response
Returned200 == pc = "done" /\ response.statusCode = 200

\* C24: a 200 response with results reports as processedCount the number
\* of meals of the batches that were started, which is the number of its
\* results; result k is the one result of meal k of the resolved list,
\* with a non-null image or with none; and successfulMappings is the
\* number of results with a non-null image.  A 200 response without
\* results is the answer to an empty list and reports 0.
AccurateCounts ==
  Returned200 =>
    IF "results" \in DOMAIN response
    THEN /\ response.processedCount = Min(i, Len(mealsToProcess))
         /\ Len(response.results) = response.processedCount
         /\ \A k \in 1..Len(response.results) :
              /\ response.results[k].mealId = mealsToProcess[k].id
              /\ response.results[k].mealName = mealsToProcess[k].name
              /\ response.results[k].method = "error" =>
                   response.results[k].imageUrl = Null
         /\ response.successfulMappings =
              Cardinality({k \in 1..Len(response.results) :
                             response.results[k].imageUrl # Null})
    ELSE /\ response.processedCount = 0
         /\ mealsToProcess = <<>>

\* C24 witness: the handler stopped after the first of two batches and
\* returned 200 with one mapped result and one error result.
StoppedWithOneMappedOneError ==
  /\ Returned200
  /\ "results" \in DOMAIN response
  /\ Len(mealsToProcess) = 3
  /\ response.processedCount = 2
  /\ response.successfulMappings = 1
  /\ response.results[1].method = "error"
  /\ response.results[2].imageUrl # Null

(***************************************************************************)
(* Batches                                                                 *)
(***************************************************************************)
\* C25: there is no cancellation inside a batch.  The remaining time is
\* read only by a step taken at the loop condition.  While a batch is
\* processed every step either adds the result of its next meal or, when
\* all its meals have a result, ends it: the batch is left only with a
\* result for each of its meals, and then either all its mapped results
\* are in the mapping collection and the loop goes on, or a write failed
\* and the handler answers 500.
NoCancellationInBatch ==
  [][/\ calls'.remainingTime # calls.remainingTime => pc \in {"loop", "idle", "done"}
     /\ pc = "batch" =>
          /\ pc' \in {"batch", "loop", "done"}
          /\ pc' = "batch" =>
               /\ Len(batchResults) < Len(Batch)
               /\ Len(batchResults') = Len(batchResults) + 1
               /\ mealsToProcess' = mealsToProcess /\ i' = i
          /\ pc' # "batch" => Len(batchResults) = Len(Batch)
          /\ pc' = "loop" =>
               /\ mappingStore' = mappingStore \o MappingDocs(batchResults)
               /\ allResults' = allResults \o batchResults
          /\ pc' = "done" =>
               /\ response'.statusCode = 500
               /\ response'.error = StoreWriteError]_vars

\* C25 witness: the time was sufficient when the first batch started and
\* short when it was read again; both meals of the batch have a result
\* and the mapped ones are in the collection.
TimeFellDuringCompletedBatch ==
  /\ pc = "respond"
  /\ calls.remainingTime < TimeoutBufferMs
  /\ i = MAX_MEALS_PER_BATCH
  /\ Len(allResults) = MAX_MEALS_PER_BATCH
  /\ Len(calls.embedding) = MAX_MEALS_PER_BATCH
  /\ Len(mealsToProcess) > MAX_MEALS_PER_BATCH
  /\ Len(Mapped(allResults)) = 2
  /\ AllResultsPersisted

\* the meals of the batches the loop has completed: i advances only
\* when every document of a batch has been written
PersistedMeals == Min(i, Len(mealsToProcess))

\* the handler answered 500 because an addDoc call failed
WriteFailed ==
  /\ pc = "done"
  /\ response.statusCode = 500
  /\ response.error = StoreWriteError

\* C26 as stated: whenever the handler has returned, the meals counted
\* in processedCount are meals of batches whose mapped results are all
\* in the mapping collection; the batch of a failed write is not counted.
CountedMealsArePersisted ==
  pc = "done" => response.processedCount <= PersistedMeals

\* the documents of the completed batches are in the collection, in
\* order, followed only by the documents the failed batch wrote
CompletedBatchesPersisted ==
  LET persisted == MappingDocs(SubSeq(allResults, 1, PersistedMeals))
      written == IF WriteFailed THEN calls.addDoc - 1 ELSE calls.addDoc
  IN  /\ written >= Len(persisted)
      /\ written <= Len(mappingStore)
      /\ SubSeq(LastDocs(written), 1, Len(persisted)) = persisted

\* C26: whenever the handler has returned, the mapped results of every
\* completed batch are in the mapping collection.  processedCount counts
\* exactly the meals of those batches, except after a failed write: then
\* it also counts the meals of the batch whose write failed.
CountedMealsArePersistedUnlessWriteFailed ==
  pc = "done" =>
    /\ CompletedBatchesPersisted
    /\ response.processedCount =
         IF WriteFailed
         THEN Min(i + MAX_MEALS_PER_BATCH, Len(mealsToProcess))
         ELSE PersistedMeals
    /\ WriteFailed => response.processedCount > PersistedMeals

\* C26 witness: the first batch was persisted, the first addDoc of the
\* second batch failed, and the 500 response counts all three meals.
SecondBatchCountedThoughNotPersisted ==
  /\ WriteFailed
  /\ i = MAX_MEALS_PER_BATCH
  /\ Len(mealsToProcess) = 3
  /\ response.processedCount = 3
  /\ Len(MappingDocs(allResults)) = 3
  /\ calls.addDoc = 3

(***************************************************************************)
(* Records per meal name                                                   *)
(***************************************************************************)
\* the documents of the mapping collection that carry a meal name
RecordsOf(mealName) ==
  {k \in 1..Len(mappingStore) : mappingStore[k].mealName = mealName}

\* C27: the mapping collection never holds more than one document for a
\* meal name, however many meal-plan documents, days and slots hold that
\* name; in particular one invocation adds at most one.
OneRecordPerMealName ==
  \A k \in 1..Len(mappingStore) :
    Cardinality(RecordsOf(mappingStore[k].mealName)) = 1

(***************************************************************************)
(* Catalog order                                                           *)
(***************************************************************************)
\* the catalogs that hold the same images in some order
Orderings(images) ==
  {c \in [1..Len(images) -> {images[k] : k \in 1..Len(images)}] :
     \A a, b \in 1..Len(c) : a # b => c[a] # c[b]}

\* no two images that pass the filter have the same cosine score or the
\* same text score
NoTies ==
  \A a, b \in MatchSurvivors :
    a # b => /\ MatchCosine(a) # MatchCosine(b)
             /\ MatchText(a) # MatchText(b)

\* what a call on a catalog selects: the image, the method, the reported
\* cosine score and the url, or the fact that it threw
Selection(result, images) ==
  IF result.threw
  THEN [threw |-> TRUE]
  ELSE [threw |-> FALSE,
        image |-> images[result.bestMatch],
        method |-> result.method,
        cosineScore |-> result.cosineScore,
        url |-> result.url]

\* the whole result: the selection and the reported text score
WholeResult(result, images) ==
  IF result.threw
  THEN [threw |-> TRUE]
  ELSE [selection |-> Selection(result, images), textScore |-> result.textScore]

MatchOn(images) ==
  findBestImageMatch(matchInput.mealName, matchInput.mealEmbedding,
                     matchInput.mealIsVegetarian, images)

\* the position of the first image that qualifies by its cosine score,
\* one past the end of the catalog when none does
FirstCosineQualifier ==
  IF CosineQualifiers = {}
  THEN Len(matchInput.images) + 1
  ELSE CHOOSE k \in CosineQualifiers : \A n \in CosineQualifiers : k <= n

\* C28 as stated: without ties among the images that pass the filter, the
\* whole match result (image, method, cosine score and text score) is the
\* same for every ordering of the catalog.
WholeResultIndependentOfOrder ==
  (MatchScored /\ NoTies) =>
    \A c \in Orderings(matchInput.images) :
      WholeResult(MatchOn(c), c)
        = WholeResult(matchOutput.result, matchInput.images)

\* C28: without ties among the images that pass the filter, the returned
\* image, the method, the reported cosine score and the url are the same for
\* every ordering of the catalog, and so is the reported text score of a
\* match made by the text method.  With or without ties the reported text
\* score is the best qualifying text score among the images that pass the
\* filter and stand before the first image that qualifies by its cosine
\* score, 0 when there is none: it depends on the order.
SelectionIndependentOfOrder ==
  /\ (MatchScored /\ NoTies) =>
       \A c \in Orderings(matchInput.images) :
         /\ Selection(MatchOn(c), c)
              = Selection(matchOutput.result, matchInput.images)
         /\ (~matchOutput.result.threw /\ matchOutput.result.method = "text")
              => MatchOn(c).textScore = matchOutput.result.textScore
  /\ (MatchScored /\ ~matchOutput.result.threw) =>
       matchOutput.result.textScore
         = Maximum({0} \cup {MatchText(k) :
                               k \in {q \in TextQualifiers : q < FirstCosineQualifier}})

\* a text match stood before the cosine match that replaced it: the result
\* reports its text score, and the other order of the two images reports 0
TextScoreLeftByEarlierImage ==
  /\ MatchScored
  /\ NoTies
  /\ matchInput.images = <<ImgButterChicken, ImgChicken>>
  /\ matchInput.mealName = ChickenBiryani
  /\ ~matchOutput.result.threw
  /\ matchOutput.result.method = "cosine"
  /\ matchInput.images[matchOutput.result.bestMatch] = ImgChicken
  /\ matchOutput.result.textScore = MatchText(1)
  /\ matchOutput.result.textScore >= TEXT_SIMILARITY_THRESHOLD
  /\ MatchOn(<<ImgChicken, ImgButterChicken>>).textScore = 0

(***************************************************************************)
(* Strong vegetarian keywords                                              *)
(***************************************************************************)
\* detectMealVegetarian was called with a strong vegetarian keyword as the
\* meal name and an empty description
StrongVegetarianKeywordAlone ==
  /\ MealClassified
  /\ matchInput.mealName \in Range(STRONG_VEGETARIAN_INDICATORS)
  /\ matchInput.description = <<>>

\* C29: every strong vegetarian keyword, alone as a meal name with an empty
\* description, is classified vegetarian: none is pre-empted by a strong
\* non-vegetarian keyword occurring inside it.
StrongVegetarianKeywordIsVegetarian ==
  StrongVegetarianKeywordAlone => matchOutput.vegetarian

(***************************************************************************)
(* Batches                                                                 *)
(***************************************************************************)
CeilDiv(n, b) == (n + b - 1) \div b

\* the number of the batch that starts at position i
BatchNumber == (i \div MAX_MEALS_PER_BATCH) + 1

\* the meals of batch k of the resolved list
MealsOfBatch(k) ==
  SubSeq(mealsToProcess, (k - 1) * MAX_MEALS_PER_BATCH + 1,
         Min(k * MAX_MEALS_PER_BATCH, Len(mealsToProcess)))

\* the meals for which an embedding was requested, in the order of the
\* requests
EmbeddedIds == [k \in 1..Len(calls.embedding) |-> calls.embedding[k].mealId]

MealIds(meals) == [k \in 1..Len(meals) |-> meals[k].id]

\* while a batch runs it is one of the first ceil(N/B) batches, its
\* results so far belong to the first meals of batch k of the list, and
\* every embedding request of the invocation was made for the next meal of
\* the list: none was made twice
BatchesInOrder ==
  /\ Len(calls.embedding) <= Len(mealsToProcess)
  /\ EmbeddedIds = SubSeq(MealIds(mealsToProcess), 1, Len(calls.embedding))
  /\ pc = "batch" =>
       /\ i % MAX_MEALS_PER_BATCH = 0
       /\ BatchNumber <= CeilDiv(Len(mealsToProcess), MAX_MEALS_PER_BATCH)
       /\ Len(batchResults) <= Len(MealsOfBatch(BatchNumber))
       /\ Len(MealsOfBatch(BatchNumber)) <= MAX_MEALS_PER_BATCH
       /\ \A k \in 1..Len(batchResults) :
            batchResults[k].mealId = MealsOfBatch(BatchNumber)[k].id
       /\ Len(calls.embedding) = i + Len(batchResults)

\* a batch is left only when all its meals have a result, and the next
\* batch starts B meals further: no batch is started twice
BatchesAdvance ==
  /\ (pc = "batch" /\ pc' # "batch") =>
       /\ Len(batchResults) = Len(MealsOfBatch(BatchNumber))
       /\ allResults' = allResults \o batchResults
  /\ (pc = "batch" /\ pc' = "loop") => i' = i + MAX_MEALS_PER_BATCH
  /\ (pc # "batch" /\ pc' # "load") => i' = i

\* C30: provided every external call returns or fails, every invocation
\* returns a response; it starts at most ceil(N/B) batches for N resolved
\* meals and batch size B, batch k consists exactly of meals (k-1)*B+1 ..
\* min(k*B, N) of the list, no meal is embedded or matched more than once
\* and no batch holds more than B meals.
BatchedProcessingTerminates ==
  /\ []BatchesInOrder
  /\ [][BatchesAdvance]_vars
  /\ (pc = "load") ~> (pc = "done")

\* three meals were processed in two batches, the second of one meal, and
\* the handler returned
ThreeMealsInTwoBatches ==
  /\ pc = "done"
  /\ response.statusCode = 200
  /\ Len(mealsToProcess) = 3
  /\ i = 2 * MAX_MEALS_PER_BATCH
  /\ Len(calls.embedding) = 3
  /\ Len(allResults) = 3
  /\ processedCount = 3
====
